---- MODULE Spec2Model ----
(***************************************************************************)
(* Model of the virtual element tree (runtime/vdom/Element.ts) and of the  *)
(* template compiler's block machinery (runtime/main/model/compiler.ts).   *)
(*                                                                         *)
(* JavaScript values are modelled as follows: array indices are 0-based    *)
(* integers as in the source (IndexOf returns -1 when absent), a missing   *)
(* node reference (undefined / null) is Nil, and Array.prototype.splice    *)
(* keeps its treatment of a negative start index.                          *)
(***************************************************************************)
EXTENDS Integers, Sequences, FiniteSets, TLC

VARIABLES
  nodeType,         \* Node._nodeType of every node of the universe
  children,         \* Element._children of the parent element ("this")
  pureChildren,     \* Element._pureChildren of the parent element
  parentNode,       \* Node._parentNode of every node: "null", "this", "other"
  previousSibling,  \* Node._previousSibling of every node (Nil when absent)
  nextSibling,      \* Node._nextSibling of every node (Nil when absent)
  destroyed,        \* the nodes on which destroy() has run
  sent,             \* the messages the last call handed to taskCenter.send
  lastCall,         \* the last call made on the parent element, with its arguments
  tagStyle,         \* Element._tagStyle: style key -> value
  classStyle,       \* Element._classStyle
  idStyle,          \* Element._idStyle
  style,            \* Element._style (inline style)
  resolved,         \* the object returned by the last toStyle() call
  stylePc,          \* "input" before toStyle() has been called, "resolved" after
  dNodeType,        \* destroy model: Node._nodeType of every node of a subtree
  dChildren,        \* destroy model: Element._children of every node (Null once released)
  dPureChildren,    \* destroy model: Element._pureChildren of every node (Null once released)
  dClassList,       \* destroy model: the Elements whose _classList is null
  dHook,            \* destroy model: the Elements that hold a destroyHook
  dNodeDestroyed,   \* destroy model: the nodes on which Node.destroy has run
  dInvoked,         \* destroy model: destroy() invocations per node during the last call
  dCall,            \* destroy model: the last top-level destroy() call and how it ended
  cLatestValue,     \* watchBlock: config.latestValue of every block
  cRecorded,        \* watchBlock: config.recorded of every block
  differMap,        \* Differ: the keys that hold a pending handler
  wave,             \* the values the watcher of every block reported since the last flush
  lastFlush,        \* the last flush: the wave it ended and the handler calls it made
  handlerFailed,    \* whether a handler has raised an error during a flush
  hasDiffer,        \* whether vm.app.differ exists
  fbChildren,       \* repeat: fragBlock.children, the targets of the items
  fbVms,            \* repeat: fragBlock.vms, the child contexts of the items
  fbData,           \* repeat: fragBlock.data, the list materialized last
  vmKey,            \* repeat: the key variable of every child context (-1 before it exists)
  vmValue,          \* repeat: the value variable of every child context
  rNext,            \* repeat: the number of the next element to be created
  rTrackBy,         \* repeat: whether the directive names a track-by attribute
  rReconciles,      \* repeat: reconciliations run so far, -1 before the initial compile
  rCall,            \* repeat: the last compile or reconciliation and what it did
  template,         \* compiler: the template forest, node -> the keys the compiler reads
  parentEl,         \* compiler: vm.parentEl, the destination of the Vm's template
  lastSignal,       \* compiler: app.lastSignal, -1 once the native host asked to abort
  treeModeParentNode, \* compiler: whether global.treeModeParentNode is set
  trace,            \* compiler: what the last build did, in order
  threw,            \* compiler: the error the last build raised, "none" if none
  built,            \* compiler: whether build(vm) has been called
  attr,             \* setters: Element._attr: key -> value
  updates,          \* setters: the messages the last setter call handed to taskCenter.send
  setCall,          \* setters: the last setter call, with the value stored before it
  written,          \* setters: layer -> key -> the value the last call wrote to that pair
  elements,         \* destroy hook: the elements made by compileNativeComponent
  teardowns,        \* destroy hook: teardown() calls on every watcher created so far
  hookCall,         \* destroy hook: the last destroy() call and the watchers held before it
  event,            \* events: Element._event of every element: type -> handler
  evSent,           \* events: the messages the last call handed to taskCenter.send
  lastMsg,          \* events: element, type -> the action of the last message sent for them
  evCall,           \* events: the last addEvent, removeEvent or fireEvent call
  display,          \* shown: fragBlock.display of the shown block
  contentCount,     \* shown: how many times the block's content stands in the tree
  shownValue,       \* shown: the value the shown getter evaluates to now
  shCall,           \* shown: the last bindShown, change or flush and what it did
  objects,          \* component data: the heap of data objects, address -> fields
  component,        \* component data: the registered component options
  instances,        \* component data: the data of every instance made so far
  dataCall          \* component data: the last operation on component data

treeVars == <<nodeType, children, pureChildren, parentNode, previousSibling,
              nextSibling, destroyed, sent, lastCall>>

styleVars == <<tagStyle, classStyle, idStyle, style, resolved, stylePc>>

destroyVars == <<dNodeType, dChildren, dPureChildren, dClassList, dHook,
                 dNodeDestroyed, dInvoked, dCall>>

differVars == <<cLatestValue, cRecorded, differMap, wave, lastFlush, handlerFailed,
               hasDiffer>>

repeatVars == <<fbChildren, fbVms, fbData, vmKey, vmValue, rNext, rTrackBy,
                rReconciles, rCall>>

compileVars == <<template, parentEl, lastSignal, treeModeParentNode, trace, threw, built>>

setterVars == <<attr, updates, setCall, written>>

hookVars == <<elements, teardowns, hookCall>>

eventVars == <<event, evSent, lastMsg, evCall>>

shownVars == <<display, contentCount, shownValue, shCall>>

dataVars == <<objects, component, instances, dataCall>>

vars == <<treeVars, styleVars, destroyVars, differVars, repeatVars, compileVars, setterVars,
          hookVars, eventVars, shownVars, dataVars>>

\* What the tree operations leave alone.
nonTreeVars == <<styleVars, destroyVars, differVars, repeatVars, compileVars, setterVars, hookVars,
   eventVars, shownVars, dataVars>>
\* What the style operations leave alone.
nonStyleVars == <<treeVars, destroyVars, differVars, repeatVars, compileVars, setterVars, hookVars,
   eventVars, shownVars, dataVars>>
\* What destroy() leaves alone.
nonDestroyVars == <<treeVars, styleVars, differVars, repeatVars, compileVars, setterVars, hookVars,
   eventVars, shownVars, dataVars>>
\* What watchBlock and the differ leave alone.
nonDifferVars == <<treeVars, styleVars, destroyVars, repeatVars, compileVars, setterVars, hookVars,
   eventVars, shownVars, dataVars>>
\* What the repeat directive leaves alone, the tree apart.
nonRepeatVars == <<styleVars, destroyVars, differVars, compileVars, setterVars, hookVars,
   eventVars, shownVars, dataVars>>
\* What the compiler leaves alone.
nonCompileVars == <<treeVars, styleVars, destroyVars, differVars, repeatVars, setterVars, hookVars,
   eventVars, shownVars, dataVars>>
\* What the destroy hook of an element leaves alone.
nonHookVars == <<treeVars, styleVars, destroyVars, differVars, repeatVars, compileVars,
                 setterVars, eventVars, shownVars, dataVars>>
\* What the event operations leave alone.
nonEventVars == <<treeVars, styleVars, destroyVars, differVars, repeatVars, compileVars,
                  setterVars, hookVars, shownVars, dataVars>>
\* What the shown block leaves alone, its watchBlock config apart.
nonShownVars == <<treeVars, styleVars, destroyVars, repeatVars, compileVars,
                  setterVars, hookVars, eventVars, dataVars>>
\* What the operations on component data leave alone.
nonDataVars == <<treeVars, styleVars, destroyVars, differVars, repeatVars, compileVars,
                 setterVars, hookVars, eventVars, shownVars>>
\* What the setters leave alone, the style tables apart.
nonSetterVars == <<treeVars, destroyVars, differVars, repeatVars, compileVars, hookVars,
   eventVars, shownVars, dataVars>>

(***************************************************************************)
(* Bounds of the model.                                                    *)
(***************************************************************************)
TreeElems == 2      \* Element nodes available to the tree operations
TreeComments == 2   \* Comment nodes available to the tree operations

Nil == 0

Max(a, b) == IF a > b THEN a ELSE b
Min(a, b) == IF a < b THEN a ELSE b

(***************************************************************************)
(* JavaScript array primitives.                                            *)
(***************************************************************************)
\* Array.prototype.indexOf: 0-based position of the first occurrence, or -1.
IndexOf(list, x) ==
  IF \E i \in 1..Len(list) : list[i] = x
  THEN (CHOOSE i \in 1..Len(list) : list[i] = x /\ \A j \in 1..(i - 1) : list[j] # x) - 1
  ELSE -1

\* list[i]: undefined (Nil) outside 0..length-1, negative indices included.
At(list, i) == IF i >= 0 /\ i < Len(list) THEN list[i + 1] ELSE Nil

\* list.splice(start, 0, x): a negative start counts from the end of the list.
SpliceIn(list, start, x) ==
  LET k == IF start < 0 THEN Max(Len(list) + start, 0) ELSE Min(start, Len(list))
  IN SubSeq(list, 1, k) \o <<x>> \o SubSeq(list, k + 1, Len(list))

\* list.splice(index, 1) for an index of the list.
SpliceOut(list, index) ==
  SubSeq(list, 1, index) \o SubSeq(list, index + 2, Len(list))

(***************************************************************************)
(* The tree state handled by the operations below: the parent element's    *)
(* two child lists, every node's links, and the messages sent so far by    *)
(* the running call; ret is the value returned by the last helper.         *)
(***************************************************************************)
Heap ==
  [children |-> children, pureChildren |-> pureChildren, parentNode |-> parentNode,
   previousSibling |-> previousSibling, nextSibling |-> nextSibling,
   destroyed |-> destroyed, sent |-> <<>>, ret |-> 0]

isElement(n) == n # Nil /\ nodeType[n] = "Element"

\* `node && (node.previousSibling = v)`
SetPrev(h, n, v) == IF n = Nil THEN h ELSE [h EXCEPT !.previousSibling[n] = v]
\* `node && (node.nextSibling = v)`
SetNext(h, n, v) == IF n = Nil THEN h ELSE [h EXCEPT !.nextSibling[n] = v]

ListOf(h, isInPureChildren) == IF isInPureChildren THEN h.pureChildren ELSE h.children
WithList(h, isInPureChildren, list) ==
  IF isInPureChildren THEN [h EXCEPT !.pureChildren = list]
  ELSE [h EXCEPT !.children = list]

Send(h, msg) == [h EXCEPT !.sent = Append(@, msg)]

\* Element.linkChild: child.parentNode = this.
linkChild(h, child) == [h EXCEPT !.parentNode[child] = "this"]

\* Element.insertIndex
insertIndex(h, target, newIndex, changeSibling, isInPureChildren) ==
  LET list == ListOf(h, isInPureChildren)
      idx == IF newIndex < 0 THEN 0 ELSE newIndex
      before == At(list, idx - 1)
      after == At(list, idx)
      h1 == WithList(h, isInPureChildren, SpliceIn(list, idx, target))
      h2 == IF changeSibling
            THEN SetPrev(SetNext(SetPrev(SetNext(h1, before, target),
                                         target, before),
                                 target, after),
                         after, target)
            ELSE h1
  IN [h2 EXCEPT !.ret = idx]

\* Element.moveIndex: the index handed to splice is newIndex - 1 when the
\* target stood at or before newIndex, which is -1 for index = newIndex = 0.
moveIndex(h, target, newIndex, changeSibling, isInPureChildren) ==
  LET list == ListOf(h, isInPureChildren)
      index == IndexOf(list, target)
  IN IF index < 0 THEN [h EXCEPT !.ret = -1]
     ELSE
       LET before == At(list, index - 1)
           after == At(list, index + 1)
           h1 == IF changeSibling
                 THEN SetPrev(SetNext(h, before, after), after, before)
                 ELSE h
           removed == SpliceOut(list, index)
           newIndexAfter == IF index <= newIndex THEN newIndex - 1 ELSE newIndex
           beforeNew == At(removed, newIndexAfter - 1)
           afterNew == At(removed, newIndexAfter)
           h2 == WithList(h1, isInPureChildren, SpliceIn(removed, newIndexAfter, target))
           h3 == IF changeSibling
                 THEN SetPrev(SetNext(SetPrev(SetNext(h2, beforeNew, target),
                                              target, beforeNew),
                                      target, afterNew),
                              afterNew, target)
                 ELSE h2
       IN [h3 EXCEPT !.ret = IF index = newIndexAfter THEN -1 ELSE newIndex]

\* Element.removeIndex
removeIndex(h, target, changeSibling, isInPureChildren) ==
  LET list == ListOf(h, isInPureChildren)
      index == IndexOf(list, target)
  IN IF index < 0 THEN h
     ELSE
       LET before == At(list, index - 1)
           after == At(list, index + 1)
           h1 == IF changeSibling
                 THEN SetPrev(SetNext(h, before, after), after, before)
                 ELSE h
       IN WithList(h1, isInPureChildren, SpliceOut(list, index))

\* Element.nextElement: the first Element at or after node along nextSibling.
RECURSIVE nextElementFrom(_, _, _)
nextElementFrom(h, node, fuel) ==
  IF node = Nil \/ fuel = 0 THEN Nil
  ELSE IF isElement(node) THEN node
  ELSE nextElementFrom(h, h.nextSibling[node], fuel - 1)
nextElement(h, node) == nextElementFrom(h, node, Cardinality(DOMAIN nodeType) + 1)

\* Element.previousElement: the first Element at or before node along previousSibling.
RECURSIVE previousElementFrom(_, _, _)
previousElementFrom(h, node, fuel) ==
  IF node = Nil \/ fuel = 0 THEN Nil
  ELSE IF isElement(node) THEN node
  ELSE previousElementFrom(h, h.previousSibling[node], fuel - 1)
previousElement(h, node) == previousElementFrom(h, node, Cardinality(DOMAIN nodeType) + 1)

(***************************************************************************)
(* Messages of the "dom" module, as handed to taskCenter.send.  The parent *)
(* element is attached to a document, so getTaskCenter returns the task    *)
(* center and the parent's ref is "this".                                  *)
(***************************************************************************)
\* An addElement message that always asks for the last position.
AddElementMsgAtEnd(node, index) ==
  [action |-> "addElement", parent |-> "this", ref |-> node, index |-> -1]
AddElementMsg(node, index) ==
  [action |-> "addElement", parent |-> "this", ref |-> node, index |-> index]
MoveElementMsg(node, index) ==
  [action |-> "moveElement", ref |-> node, parent |-> "this", index |-> index]
RemoveElementMsg(node) ==
  [action |-> "removeElement", ref |-> node]

\* Node.destroy: the node's links are released.
nodeDestroy(h, node) ==
  [h EXCEPT !.destroyed = @ \cup {node},
            !.parentNode[node] = "null",
            !.previousSibling[node] = Nil,
            !.nextSibling[node] = Nil]

\* Element.appendChild
appendChild(h, node) ==
  IF h.parentNode[node] # "null" /\ h.parentNode[node] # "this" THEN h
  ELSE IF h.parentNode[node] = "null"
  THEN LET h1 == insertIndex(linkChild(h, node), node, Len(h.children), TRUE, FALSE)
       IN IF isElement(node)
          THEN Send(insertIndex(h1, node, Len(h1.pureChildren), FALSE, TRUE),
                    AddElementMsg(node, -1))
          ELSE h1
  ELSE LET h1 == moveIndex(h, node, Len(h.children), TRUE, FALSE)
       IN IF isElement(node)
          THEN LET h2 == moveIndex(h1, node, Len(h1.pureChildren), FALSE, TRUE)
               IN IF h2.ret >= 0 THEN Send(h2, MoveElementMsg(node, h2.ret)) ELSE h2
          ELSE h1

\* Element.insertBefore
insertBefore(h, node, before) ==
  IF h.parentNode[node] # "null" /\ h.parentNode[node] # "this" THEN h
  ELSE IF node = before \/ (h.nextSibling[node] # Nil /\ h.nextSibling[node] = before) THEN h
  ELSE IF IndexOf(h.children, before) < 0 THEN h
  ELSE IF h.parentNode[node] = "null"
  THEN LET h1 == insertIndex(linkChild(h, node), node, IndexOf(h.children, before), TRUE, FALSE)
       IN IF isElement(node)
          THEN LET pureBefore == nextElement(h1, before)
                   h2 == insertIndex(h1, node,
                                     IF pureBefore # Nil
                                     THEN IndexOf(h1.pureChildren, pureBefore)
                                     ELSE Len(h1.pureChildren),
                                     FALSE, TRUE)
               IN Send(h2, AddElementMsg(node, h2.ret))
          ELSE h1
  ELSE LET h1 == moveIndex(h, node, IndexOf(h.children, before), TRUE, FALSE)
       IN IF isElement(node)
          THEN LET pureBefore == nextElement(h1, before)
                   h2 == moveIndex(h1, node,
                                   IF pureBefore # Nil
                                   THEN IndexOf(h1.pureChildren, pureBefore)
                                   ELSE Len(h1.pureChildren),
                                   FALSE, TRUE)
               IN IF h2.ret >= 0 THEN Send(h2, MoveElementMsg(node, h2.ret)) ELSE h2
          ELSE h1

\* Element.insertAfter: unlike insertBefore it does not check that the
\* reference node is a child.
insertAfter(h, node, after) ==
  IF h.parentNode[node] # "null" /\ h.parentNode[node] # "this" THEN h
  ELSE IF node = after \/ (h.previousSibling[node] # Nil /\ h.previousSibling[node] = after) THEN h
  ELSE IF h.parentNode[node] = "null"
  THEN LET h1 == insertIndex(linkChild(h, node), node, IndexOf(h.children, after) + 1, TRUE, FALSE)
       IN IF isElement(node)
          THEN LET h2 == insertIndex(h1, node,
                                     IndexOf(h1.pureChildren, previousElement(h1, after)) + 1,
                                     FALSE, TRUE)
               IN Send(h2, AddElementMsg(node, h2.ret))
          ELSE h1
  ELSE LET h1 == moveIndex(h, node, IndexOf(h.children, after) + 1, TRUE, FALSE)
       IN IF isElement(node)
          THEN LET h2 == moveIndex(h1, node,
                                   IndexOf(h1.pureChildren, previousElement(h1, after)) + 1,
                                   FALSE, TRUE)
               IN IF h2.ret >= 0 THEN Send(h2, MoveElementMsg(node, h2.ret)) ELSE h2
          ELSE h1

\* Element.removeChild
removeChild(h, node, preserved) ==
  LET h1 == IF h.parentNode[node] # "null"
            THEN LET r == removeIndex(h, node, TRUE, FALSE)
                 IN IF isElement(node)
                    THEN Send(removeIndex(r, node, FALSE, TRUE), RemoveElementMsg(node))
                    ELSE r
            ELSE h
  IN IF ~preserved THEN nodeDestroy(h1, node) ELSE h1

(***************************************************************************)
(* Style cascade: Element.toStyle and Element.assignStyle.  A style object *)
(* maps every key to its value, to Absent when the object has no such key, *)
(* or to Undefined when the key is present with the value undefined.       *)
(***************************************************************************)
Absent == "~absent"
Undefined == "~undefined"
StyleKeys == {"color", "margin"}
ColorValues == {Absent, Undefined, "", "red", "blue"}
MarginValues == {Absent, "", "1"}
StyleObjects ==
  {[k \in StyleKeys |-> IF k = "color" THEN c ELSE m] : c \in ColorValues, m \in MarginValues}
EmptyStyle == [k \in StyleKeys |-> Absent]

\* JavaScript truthiness of a style value.
Truthy(v) == v \notin {Absent, Undefined, ""}

\* Object.keys(dest)
KeysOf(dest) == {k \in StyleKeys : dest[k] # Absent}

Perms(S) ==
  {p \in [1..Cardinality(S) -> S] : \A i, j \in 1..Cardinality(S) : p[i] = p[j] => i = j}

\* keys.sort(cmp) with cmp(style1, style2) = 1 when dest[style1] === '' and
\* -1 otherwise.  The comparator looks at its first argument only, so the
\* order among the keys holding '' and among the other keys is left to the
\* engine's sort; every key holding '' ends up after every other key.
SortOutcomes(dest) ==
  {p \in Perms(KeysOf(dest)) :
     \A i, j \in 1..Len(p) : (dest[p[i]] = "" /\ dest[p[j]] # "") => i > j}

\* The loop of assignStyle, `while (i--)`: keys[i-1] down to keys[0].  An
\* empty or undefined value meeting a truthy src[key] returns from the
\* whole function, leaving keys[0..i-2] unprocessed.
RECURSIVE assignStyleLoop(_, _, _, _)
assignStyleLoop(src, dest, keys, i) ==
  IF i = 0 THEN src
  ELSE LET key == keys[i]
           val == dest[key]
       IN IF Truthy(val)
          THEN assignStyleLoop([src EXCEPT ![key] = val], dest, keys, i - 1)
          ELSE IF (val = "" \/ val = Undefined) /\ Truthy(src[key])
          THEN src
          ELSE assignStyleLoop([src EXCEPT ![key] = val], dest, keys, i - 1)

\* Element.assignStyle(src, dest), for one outcome of the sort.
assignStyle(src, dest, keys) == assignStyleLoop(src, dest, keys, Len(keys))

\* Element.toStyle, for one sort outcome per layer.
toStyle(classKeys, idKeys, inlineKeys) ==
  assignStyle(assignStyle(assignStyle(tagStyle, classStyle, classKeys),
                          idStyle, idKeys),
              style, inlineKeys)

StyleInit ==
  /\ tagStyle \in StyleObjects
  /\ classStyle \in StyleObjects
  /\ idStyle \in StyleObjects
  /\ style \in StyleObjects
  /\ resolved = EmptyStyle
  /\ stylePc = "input"

\* The style state of the specifications that do not exercise it.
StyleIdle ==
  /\ tagStyle = EmptyStyle
  /\ classStyle = EmptyStyle
  /\ idStyle = EmptyStyle
  /\ style = EmptyStyle
  /\ resolved = EmptyStyle
  /\ stylePc = "input"

ToStyle ==
  /\ stylePc = "input"
  /\ \E classKeys \in SortOutcomes(classStyle), idKeys \in SortOutcomes(idStyle),
        inlineKeys \in SortOutcomes(style) :
       resolved' = toStyle(classKeys, idKeys, inlineKeys)
  /\ stylePc' = "resolved"
  /\ UNCHANGED <<tagStyle, classStyle, idStyle, style, nonStyleVars>>

StyleNext == ToStyle

\* Highest-precedence layer first: inline, id, class, tag.
Layers == <<style, idStyle, classStyle, tagStyle>>
HasNonEmpty(k) == \E i \in 1..4 : Truthy(Layers[i][k])
TopNonEmpty(k) ==
  Layers[CHOOSE i \in 1..4 : Truthy(Layers[i][k]) /\ \A j \in 1..(i - 1) : ~Truthy(Layers[j][k])][k]

\* C2: toStyle() gives every key the value of the highest-precedence layer
\* (tag < class < id < inline) holding a non-empty value for it; for tag
\* {color: red}, class {color: '', margin: 1}, id {}, inline {color: blue}
\* the result is {color: blue, margin: 1}.
C2_CascadeResolvesTopNonEmpty ==
  stylePc = "resolved" =>
    \A k \in StyleKeys : HasNonEmpty(k) => resolved[k] = TopNonEmpty(k)

(***************************************************************************)
(* Element.destroy over a subtree.  Node 1 is the root Element; every      *)
(* other node is a child of an Element with a smaller number.  Null stands *)
(* for a field that holds null.                                            *)
(***************************************************************************)
DestroyNodes == 4   \* nodes of the subtree handed to destroy()

Null == "null"
DNodes == 1..DestroyNodes

\* The state destroy() works on; threw is set once an error has been raised.
DHeap ==
  [children |-> dChildren, pureChildren |-> dPureChildren, classListNull |-> dClassList,
   hook |-> dHook, nodeDestroyed |-> dNodeDestroyed,
   invoked |-> [n \in DNodes |-> 0], threw |-> FALSE]

\* Node.destroy, reached through super.destroy() and for Comment nodes.
superDestroy(st, n) == [st EXCEPT !.nodeDestroyed = @ \cup {n}]

\* `if (this.destroyHook) { this.destroyHook(); this.destroyHook = null; }`
runDestroyHook(st, n) == [st EXCEPT !.hook = @ \ {n}]

\* The children destroy() visits: this._children.forEach(...).
destroyTargets(st, n) == st.children[n]

\* Element.destroy (Comment nodes go straight to Node.destroy).  The
\* statement `this._classList.length = 0` raises a TypeError when
\* _classList is already null; an error raised by a child ends the call.
RECURSIVE destroy(_, _), destroyEach(_, _, _)
destroy(st, n) ==
  LET st0 == [st EXCEPT !.invoked[n] = @ + 1]
  IN IF dNodeType[n] = "Comment" THEN superDestroy(st0, n)
     ELSE IF n \in st0.classListNull THEN [st0 EXCEPT !.threw = TRUE]
     ELSE
       LET st1 == runDestroyHook([st0 EXCEPT !.classListNull = @ \cup {n}], n)
           st2 == IF st1.children[n] # Null
                  THEN destroyEach(st1, destroyTargets(st1, n), 1)
                  ELSE st1
       IN IF st2.threw THEN st2
          ELSE superDestroy([st2 EXCEPT !.children[n] = Null,
                                        !.pureChildren[n] = Null], n)
destroyEach(st, list, i) ==
  IF i > Len(list) \/ st.threw THEN st
  ELSE destroyEach(destroy(st, list[i]), list, i + 1)

\* The subtrees destroy() is tried on: parent[n] < n is an Element, the
\* children of a node are listed in increasing order, pureChildren holds
\* the Elements among them.
DShapes ==
  {sh \in [type : [DNodes -> {"Element", "Comment"}], parent : [DNodes -> 0..DestroyNodes]] :
     /\ sh.type[1] = "Element" /\ sh.parent[1] = 0
     /\ \A n \in DNodes \ {1} :
          sh.parent[n] \in 1..(n - 1) /\ sh.type[sh.parent[n]] = "Element"}

RECURSIVE ChildrenFrom(_, _, _)
ChildrenFrom(sh, p, n) ==
  IF n > DestroyNodes THEN <<>>
  ELSE (IF sh.parent[n] = p THEN <<n>> ELSE <<>>) \o ChildrenFrom(sh, p, n + 1)

RECURSIVE ElementsOf(_, _)
ElementsOf(sh, list) ==
  IF list = <<>> THEN <<>>
  ELSE (IF sh.type[Head(list)] = "Element" THEN <<Head(list)>> ELSE <<>>)
       \o ElementsOf(sh, Tail(list))

DestroyInit ==
  \E sh \in DShapes :
    /\ dNodeType = sh.type
    /\ dChildren = [n \in DNodes |-> IF sh.type[n] = "Element" THEN ChildrenFrom(sh, n, 1) ELSE <<>>]
    /\ dPureChildren = [n \in DNodes |->
                          IF sh.type[n] = "Element"
                          THEN ElementsOf(sh, ChildrenFrom(sh, n, 1)) ELSE <<>>]
    /\ dClassList = {}
    /\ dHook \in SUBSET {n \in DNodes \ {1} : sh.type[n] = "Element"}
    /\ dNodeDestroyed = {}
    /\ dInvoked = [n \in DNodes |-> 0]
    /\ dCall = [target |-> 0, again |-> FALSE, threw |-> FALSE, subtree |-> {}]

\* The destroy state of the specifications that do not exercise it.
DestroyIdle ==
  /\ dNodeType = <<>>
  /\ dChildren = <<>>
  /\ dPureChildren = <<>>
  /\ dClassList = {}
  /\ dHook = {}
  /\ dNodeDestroyed = {}
  /\ dInvoked = <<>>
  /\ dCall = [target |-> 0, again |-> FALSE, threw |-> FALSE, subtree |-> {}]

\* The nodes below n through the children lists, before the call.
RECURSIVE DescendantsVia(_, _)
DescendantsVia(n, fuel) ==
  IF fuel = 0 \/ dChildren[n] = Null THEN {}
  ELSE LET kids == {dChildren[n][i] : i \in 1..Len(dChildren[n])}
       IN kids \cup UNION {DescendantsVia(k, fuel - 1) : k \in kids}
Descendants(n) == DescendantsVia(n, DestroyNodes)

\* A call of destroy() on any Element of the subtree, destroyed or not.
Destroy ==
  \E n \in {m \in DNodes : dNodeType[m] = "Element"} :
    LET st == destroy(DHeap, n)
    IN /\ dChildren' = st.children
       /\ dPureChildren' = st.pureChildren
       /\ dClassList' = st.classListNull
       /\ dHook' = st.hook
       /\ dNodeDestroyed' = st.nodeDestroyed
       /\ dInvoked' = st.invoked
       /\ dCall' = [target |-> n, again |-> n \in dClassList, threw |-> st.threw,
                    subtree |-> Descendants(n)]
       /\ UNCHANGED <<dNodeType, nonDestroyVars>>

DestroyNext == Destroy

\* C3: a second destroy() on an already-destroyed Element completes
\* without raising an error (and changes no state, sends no message).
C3_SecondDestroyCompletes == dCall.again => ~dCall.threw

\* What a destroy() call on `target` owes its children subtree.
DestroyedSubtreeOnce ==
  /\ \A d \in dCall.subtree : dInvoked[d] = 1 /\ d \in dNodeDestroyed
  /\ \A d \in dCall.subtree : dNodeType[d] = "Element" => dChildren[d] = Null
  /\ dChildren[dCall.target] = Null
  /\ dPureChildren[dCall.target] = Null

\* C4: one destroy() call on an Element invokes destroy exactly once on
\* every node of its children subtree, leaves none of them un-destroyed,
\* and releases the element's children and pureChildren.
C4_DestroysSubtreeOnce == dCall.target # 0 => DestroyedSubtreeOnce

\* The same, for the calls that return normally.
ReturnedDestroyReleases ==
  (dCall.target # 0 /\ ~dCall.threw) => DestroyedSubtreeOnce

(***************************************************************************)
(* The tree operations as actions: any live node, any live reference node. *)
(***************************************************************************)
TreeNodes == 1..(TreeElems + TreeComments)
Live == (DOMAIN nodeType) \ destroyed

SetHeap(h) ==
  /\ children' = h.children
  /\ pureChildren' = h.pureChildren
  /\ parentNode' = h.parentNode
  /\ previousSibling' = h.previousSibling
  /\ nextSibling' = h.nextSibling
  /\ destroyed' = h.destroyed
  /\ sent' = h.sent

TreeInit ==
  /\ nodeType = [n \in TreeNodes |-> IF n <= TreeElems THEN "Element" ELSE "Comment"]
  /\ children = <<>>
  /\ pureChildren = <<>>
  \* one node, the last Element or the last Comment, is a child of another element
  /\ \E foreign \in {TreeElems, TreeElems + TreeComments} :
       parentNode = [n \in TreeNodes |-> IF n = foreign THEN "other" ELSE "null"]
  /\ previousSibling = [n \in TreeNodes |-> Nil]
  /\ nextSibling = [n \in TreeNodes |-> Nil]
  /\ destroyed = {}
  /\ sent = <<>>
  /\ lastCall = [op |-> "none"]

AppendChild ==
  \E node \in Live :
    /\ SetHeap(appendChild(Heap, node))
    /\ lastCall' = [op |-> "appendChild", node |-> node]
    /\ UNCHANGED <<nodeType, nonTreeVars>>

InsertBefore ==
  \E node \in Live, before \in Live :
    /\ SetHeap(insertBefore(Heap, node, before))
    /\ lastCall' = [op |-> "insertBefore", node |-> node, ref |-> before]
    /\ UNCHANGED <<nodeType, nonTreeVars>>

InsertAfter ==
  \E node \in Live, after \in Live :
    /\ SetHeap(insertAfter(Heap, node, after))
    /\ lastCall' = [op |-> "insertAfter", node |-> node, ref |-> after]
    /\ UNCHANGED <<nodeType, nonTreeVars>>

RemoveChild ==
  \E node \in Live, preserved \in BOOLEAN :
    /\ SetHeap(removeChild(Heap, node, preserved))
    /\ lastCall' = [op |-> "removeChild", node |-> node, preserved |-> preserved]
    /\ UNCHANGED <<nodeType, nonTreeVars>>

TreeNext == AppendChild \/ InsertBefore \/ InsertAfter \/ RemoveChild

(***************************************************************************)
(* The same operations when every reference node handed to insertBefore    *)
(* and insertAfter is a current child of the parent element.               *)
(***************************************************************************)
Range(list) == {list[i] : i \in 1..Len(list)}

InsertBeforeChild ==
  \E node \in Live, before \in Range(children) :
    /\ SetHeap(insertBefore(Heap, node, before))
    /\ lastCall' = [op |-> "insertBefore", node |-> node, ref |-> before]
    /\ UNCHANGED <<nodeType, nonTreeVars>>

InsertAfterChild ==
  \E node \in Live, after \in Range(children) :
    /\ SetHeap(insertAfter(Heap, node, after))
    /\ lastCall' = [op |-> "insertAfter", node |-> node, ref |-> after]
    /\ UNCHANGED <<nodeType, nonTreeVars>>

TreeChildRefNext == AppendChild \/ InsertBeforeChild \/ InsertAfterChild \/ RemoveChild


(***************************************************************************)
(* watchBlock and the Differ.  Every block owns one config object and one  *)
(* differ key (type, blockId).  Block 1 is a repeat block, every other     *)
(* block a shown block.                                                    *)
(***************************************************************************)
DifferBlocks == 2   \* blocks that share the application's differ
MaxWave == 2        \* watcher callbacks per block between two flushes

Blocks == 1..DifferBlocks
blockType(b) == IF b = 1 THEN "repeat" ELSE "shown"

\* Values of the watched expression: two arrays, a truthy value that is
\* not an array, and a falsy value.
NotArray == "notArray"
WatchValues == {"listA", "listB", NotArray, "falsy"}

\* The key differ.append files a handler under.
DifferKey(b) == [type |-> blockType(b), ref |-> b]

\* The state the callbacks work on.
DifferState ==
  [latestValue |-> cLatestValue, recorded |-> cRecorded, map |-> differMap,
   calls |-> <<>>, threw |-> FALSE, differ |-> hasDiffer, reentered |-> FALSE]

\* A write the handler of block ref makes, while it runs, that sets the
\* block's watched value to `value`; ref 0 when no handler writes.
NoReentry == [ref |-> 0, value |-> Undefined]
ReentrantValues == {"listA", "listB"}
ReentrantWrites(map) ==
  {NoReentry} \cup {[ref |-> b, value |-> v] : b \in {x \in Blocks : DifferKey(x) \in map},
                                               v \in ReentrantValues}

\* Differ.append(type, ref, handler): group[type][ref] = handler.
differAppend(st, b) == [st EXCEPT !.map = @ \cup {DifferKey(b)}]

\* The callback watchBlock hands to newWatch.
watchCallback(st, b, value) ==
  LET st1 == [st EXCEPT !.latestValue[b] = value]
      st2 == IF st1.differ /\ ~st1.recorded[b] THEN differAppend(st1, b) ELSE st1
  IN [st2 EXCEPT !.recorded[b] = TRUE]

\* The handler of a block raises an error when it cannot process the
\* value: the repeat handler calls data.forEach on a truthy value.
handlerThrows(b, value) == blockType(b) = "repeat" /\ value = NotArray

\* handler(latestValue): the watcher callback runs inside the handler when
\* the handler changes the watched value.
handlerCall(st, b, latestValue, reentry) ==
  LET st1 == [st EXCEPT !.calls = Append(@, [ref |-> b, value |-> latestValue])]
  IN IF handlerThrows(b, latestValue) THEN [st1 EXCEPT !.threw = TRUE]
     ELSE IF reentry.ref = b /\ reentry.value # latestValue
     THEN [watchCallback(st1, b, reentry.value) EXCEPT !.reentered = TRUE]
     ELSE st1

\* The function watchBlock appends to the differ.
flushCallback(st, b, reentry) ==
  LET latestValue == st.latestValue[b]
      st1 == handlerCall(st, b, latestValue, reentry)
  IN IF st1.threw THEN st1
     ELSE [st1 EXCEPT !.recorded[b] = FALSE, !.latestValue[b] = Undefined]

\* The pending keys of one type, in the order of the object's keys.
RECURSIVE KeysOfType(_, _, _)
KeysOfType(map, type, b) ==
  IF b > DifferBlocks THEN <<>>
  ELSE (IF blockType(b) = type /\ DifferKey(b) \in map THEN <<b>> ELSE <<>>)
       \o KeysOfType(map, type, b + 1)

RECURSIVE callTypeMap(_, _, _, _)
callTypeMap(st, refs, i, reentry) ==
  IF i > Len(refs) \/ st.threw THEN st
  ELSE callTypeMap(flushCallback(st, refs[i], reentry), refs, i + 1, reentry)

\* Differ.flush: the map is emptied, then the repeat handlers and the
\* shown handlers are called; an error raised by a handler ends the flush.
differFlush(st, reentry) ==
  LET map == st.map
      st0 == [st EXCEPT !.map = {}]
      st1 == callTypeMap(st0, KeysOfType(map, "repeat", 1), 1, reentry)
  IN callTypeMap(st1, KeysOfType(map, "shown", 1), 1, reentry)

DifferInit ==
  /\ cLatestValue = [b \in Blocks |-> Undefined]
  /\ cRecorded = [b \in Blocks |-> FALSE]
  /\ differMap = {}
  /\ wave = [b \in Blocks |-> <<>>]
  /\ lastFlush = [done |-> FALSE, wave |-> [b \in Blocks |-> <<>>], calls |-> <<>>,
                  reentry |-> NoReentry]
  /\ handlerFailed = FALSE
  /\ hasDiffer \in BOOLEAN

\* The differ state of the specifications that do not exercise it.
DifferIdle ==
  /\ cLatestValue = <<>>
  /\ cRecorded = <<>>
  /\ differMap = {}
  /\ wave = <<>>
  /\ lastFlush = [done |-> FALSE, wave |-> <<>>, calls |-> <<>>, reentry |-> NoReentry]
  /\ handlerFailed = FALSE
  /\ hasDiffer = FALSE

\* The watcher of block b sees the watched value change to `value`.
WatcherFires ==
  \E b \in Blocks, value \in WatchValues :
    /\ Len(wave[b]) < MaxWave
    /\ (wave[b] # <<>> => value # wave[b][Len(wave[b])])
    /\ LET st == watchCallback(DifferState, b, value)
       IN /\ cLatestValue' = st.latestValue
          /\ cRecorded' = st.recorded
          /\ differMap' = st.map
    /\ wave' = [wave EXCEPT ![b] = Append(@, value)]
    /\ UNCHANGED <<lastFlush, handlerFailed, hasDiffer, nonDifferVars>>

\* The end of the update wave: differ.flush().  At most one of the handlers
\* it calls changes the value its own block watches.
Flush ==
  /\ hasDiffer
  /\ \E reentry \in ReentrantWrites(differMap) :
       \E st \in {differFlush(DifferState, reentry)} :
         /\ cLatestValue' = st.latestValue
         /\ cRecorded' = st.recorded
         /\ differMap' = st.map
         /\ wave' = [b \in Blocks |-> <<>>]
         /\ lastFlush' = [done |-> TRUE, wave |-> wave, calls |-> st.calls,
                          reentry |-> IF st.reentered THEN reentry ELSE NoReentry]
         /\ handlerFailed' = (handlerFailed \/ st.threw)
  /\ UNCHANGED <<hasDiffer, nonDifferVars>>

DifferNext == WatcherFires \/ Flush

\* The values the last flush passed to the handler of block b.
RECURSIVE ValuesFor(_, _)
ValuesFor(calls, b) ==
  IF calls = <<>> THEN <<>>
  ELSE (IF Head(calls).ref = b THEN <<Head(calls).value>> ELSE <<>>)
       \o ValuesFor(Tail(calls), b)

\* One entry while callbacks are pending, one handler call at the flush,
\* with the value recorded last.
CoalescedWave ==
  /\ \A b \in Blocks : wave[b] # <<>> => DifferKey(b) \in differMap
  /\ lastFlush.done =>
       \A b \in Blocks :
         lastFlush.wave[b] # <<>> =>
           ValuesFor(lastFlush.calls, b) = <<lastFlush.wave[b][Len(lastFlush.wave[b])]>>

CoalescedUntilHandlerError == (hasDiffer /\ ~handlerFailed) => CoalescedWave

(***************************************************************************)
(* The repeat directive: compileRepeat, bindRepeat and the reconciliation  *)
(* handler.  The block's destination is the parent element ("this"); node  *)
(* RStart and REnd are the block's comment markers, RStatic is an element  *)
(* compiled before the repeat node, and every other node is an element     *)
(* created for an item.  The child context made for an item carries the    *)
(* number of the element compiled for it.  The template of the repeated    *)
(* node has no children and no shown directive, and the application is     *)
(* never aborted.                                                          *)
(***************************************************************************)
MaxList == 3        \* items of a repeated list
RepeatElems == 6    \* elements that can be created for items
MaxReconciles == 1  \* reconciliations after the initial compile

RStart == 1
REnd == 2
RStatic == 3
\* MaxList spare numbers keep a reconciliation that exceeds RepeatElems defined.
RepeatNodes == 1..(RStatic + RepeatElems + MaxList)

\* The items of the lists, and the value of their track-by attribute:
\* "a" and "a2" are distinct objects with the same tid, "e" has tid ''.
Items == {"a", "a2", "b", "c", "e"}
tid(item) ==
  CASE item \in {"a", "a2"} -> "ka"
    [] item = "b" -> "kb"
    [] item = "c" -> "kc"
    [] OTHER -> ""

\* The lists a getter returns: every item at most once.
Lists ==
  UNION {{l \in [1..n -> Items] : \A i, j \in 1..n : l[i] = l[j] => i = j} : n \in 0..MaxList}

\* `trackBy && item[trackBy] !== undefined ? item[trackBy] : index`, as the
\* property name it is used as.
RepeatKey(item, index, trackBy) ==
  IF trackBy /\ tid(item) # Undefined THEN tid(item) ELSE ToString(index)

\* `const v = ...; F(v)`: the value is computed once and then used.
Bind(v, F(_)) == CHOOSE r \in {F(x) : x \in {v}} : TRUE

\* The state compileRepeat and the handler work on.
RepeatState ==
  [h |-> Heap, children |-> fbChildren, vms |-> fbVms, data |-> fbData,
   updateMark |-> Nil, key |-> vmKey, value |-> vmValue, next |-> rNext,
   removed |-> 0, compiled |-> 0, moved |-> 0]

\* createBlock(vm, dest) for an Element dest: the two markers are appended.
createBlock(st) == [st EXCEPT !.h = appendChild(appendChild(@, RStart), REnd)]

\* moveTarget(target, after) for an element: after.parentNode.insertAfter.
moveTarget(st, target, after) ==
  IF st.h.parentNode[after] = "this"
  THEN [st EXCEPT !.h = insertAfter(@, target, after)]
  ELSE st

\* removeTarget(target) for an element: target.parentNode.removeChild.
removeTarget(st, target) ==
  IF target # Nil /\ st.h.parentNode[target] = "this"
  THEN [st EXCEPT !.h = removeChild(@, target, FALSE)]
  ELSE st

\* attachTarget(target, dest) for an element target and the block as dest.
attachTarget(st, target) ==
  Bind([st EXCEPT !.children = Append(@, target)],
       LAMBDA st1 :
         IF st1.updateMark # Nil
         THEN [moveTarget(st1, target, st1.updateMark) EXCEPT !.updateMark = target]
         ELSE [st1 EXCEPT !.h = insertBefore(@, target, REnd)])

\* compileNativeComponent for the repeated node: createElement, attachTarget.
compileNativeComponent(st, element) == attachTarget(st, element)

\* compileItem with the key variable counted from 1.
compileItemKeyFromOne(st, item, index) ==
  LET newContext == st.next
      st1 == [st EXCEPT !.key[newContext] = index + 1, !.value[newContext] = item,
                        !.vms = Append(@, newContext),
                        !.next = @ + 1, !.compiled = @ + 1]
  IN compileNativeComponent(st1, newContext)

\* bindRepeat.compileItem: a new context bound to (index, item), recorded in
\* vms, and the node compiled against it.
compileItem(st, item, index) ==
  LET newContext == st.next
      st1 == [st EXCEPT !.key[newContext] = index, !.value[newContext] = item,
                        !.vms = Append(@, newContext),
                        !.next = @ + 1, !.compiled = @ + 1]
  IN compileNativeComponent(st1, newContext)

RECURSIVE compileItems(_, _, _)
compileItems(st, list, i) ==
  IF i > Len(list) THEN st
  ELSE Bind(compileItem(st, list[i], i - 1), LAMBDA st1 : compileItems(st1, list, i + 1))

\* compileRepeat: the block is created with empty lists, and bindRepeat
\* compiles every item of the initial list.
compileRepeat(st, list) ==
  Bind([createBlock(st) EXCEPT !.children = <<>>, !.data = list, !.vms = <<>>],
       LAMBDA st1 : compileItems(st1, list, 1))

\* trackMap keyed by the index whatever the track-by attribute.
trackMapByIndex(data, trackBy) == {ToString(i - 1) : i \in 1..Len(data)}

\* The keys of trackMap: null and '' are skipped.
trackMap(data, trackBy) ==
  {RepeatKey(data[i], i - 1, trackBy) : i \in 1..Len(data)} \ {""}

\* removeItem(list, item) of the utilities: the first occurrence is removed.
removeItem(list, item) ==
  IF IndexOf(list, item) < 0 THEN list ELSE SpliceOut(list, IndexOf(list, item))

\* `oldData.forEach`: an old item whose key is in trackMap is recorded in
\* reusedMap (a later item with the same key replaces the entry) and in
\* reusedList; the target of any other old item is removed.
RECURSIVE oldWalk(_, _, _, _, _, _, _)
oldWalk(w, oldData, oldChildren, oldVms, keys, trackBy, i) ==
  IF i > Len(oldData) THEN w
  ELSE
    LET item == oldData[i]
        key == RepeatKey(item, i - 1, trackBy)
        entry == [item |-> item, target |-> At(oldChildren, i - 1), vm |-> At(oldVms, i - 1)]
        w1 == IF key \in keys
              THEN [w EXCEPT !.reusedMap = [k \in DOMAIN @ \cup {key} |->
                                              IF k = key THEN entry ELSE @[k]],
                             !.reusedList = Append(@, item)]
              ELSE [w EXCEPT !.st = [removeTarget(@, At(oldChildren, i - 1))
                                       EXCEPT !.removed = @ + 1]]
    IN Bind(w1, LAMBDA w2 : oldWalk(w2, oldData, oldChildren, oldVms, keys, trackBy, i + 1))

\* A step of the new list's walk that compiles every item anew.
reuseOrCompileAlwaysNew(w, item, index, trackBy) ==
  [w EXCEPT !.st = compileItem(@, item, index)]

\* One step of the new list's `data.forEach`: reuse the recorded target of
\* the item's key, moving it unless its item heads reusedList, or compile
\* the item.
reuseOrCompile(w, item, index, trackBy) ==
  LET key == RepeatKey(item, index, trackBy)
  IN IF key \in DOMAIN w.reusedMap
     THEN
       LET reused == w.reusedMap[key]
           inOrder == w.reusedList # <<>> /\ reused.item = Head(w.reusedList)
           w1 == IF inOrder
                 THEN [w EXCEPT !.reusedList = Tail(@)]
                 ELSE [w EXCEPT !.reusedList = removeItem(@, reused.item),
                                !.st = [moveTarget(@, reused.target, w.st.updateMark)
                                          EXCEPT !.moved = @ + 1]]
       IN [w1 EXCEPT !.st.children = Append(@, reused.target),
                     !.st.vms = Append(@, reused.vm),
                     !.st.value[reused.vm] = item,
                     !.st.key[reused.vm] = index,
                     !.st.updateMark = reused.target]
     ELSE [w EXCEPT !.st = compileItem(@, item, index)]

RECURSIVE newWalk(_, _, _, _)
newWalk(w, data, trackBy, i) ==
  IF i > Len(data) THEN w
  ELSE Bind(reuseOrCompile(w, data[i], i - 1, trackBy),
            LAMBDA w1 : newWalk(w1, data, trackBy, i + 1))

\* The handler bindRepeat hands to watchBlock, for a list `data`.
reconcile(st, data, trackBy) ==
  LET w0 == [st |-> st, reusedMap |-> <<>>, reusedList |-> <<>>]
  IN Bind(oldWalk(w0, st.data, st.children, st.vms, trackMap(data, trackBy), trackBy, 1),
          LAMBDA w1 :
            LET w2 == newWalk([w1 EXCEPT !.st.children = <<>>, !.st.vms = <<>>,
                                         !.st.data = data, !.st.updateMark = RStart],
                              data, trackBy, 1)
            IN [w2.st EXCEPT !.updateMark = Nil])

\* The handler called with null, undefined or another falsy value: it
\* returns at `if (!fragBlock || !data)`.
reconcileNoData(st) == st

\* The tree before the repeat node is compiled: the parent element has no
\* child yet, or one element compiled from an earlier child template.
RepeatTreeInit ==
  /\ nodeType = [n \in RepeatNodes |-> IF n \in {RStart, REnd} THEN "Comment" ELSE "Element"]
  /\ children \in {<<>>, <<RStatic>>}
  /\ pureChildren = children
  /\ parentNode = [n \in RepeatNodes |-> IF n \in Range(children) THEN "this" ELSE "null"]
  /\ previousSibling = [n \in RepeatNodes |-> Nil]
  /\ nextSibling = [n \in RepeatNodes |-> Nil]
  /\ destroyed = {}
  /\ sent = <<>>
  /\ lastCall = [op |-> "none"]

NoRepeatCall ==
  [op |-> "none", trackBy |-> FALSE, oldData |-> <<>>, oldChildren |-> <<>>,
   oldVms |-> <<>>, removed |-> 0, compiled |-> 0, moved |-> 0, pure |-> 0]

RepeatInit ==
  /\ fbChildren = <<>>
  /\ fbVms = <<>>
  /\ fbData = <<>>
  /\ vmKey = [n \in RepeatNodes |-> -1]
  /\ vmValue = [n \in RepeatNodes |-> Undefined]
  /\ rNext = RStatic + 1
  /\ rTrackBy = FALSE
  /\ rReconciles = -1
  /\ rCall = NoRepeatCall

\* The repeat state of the specifications that do not exercise it.
RepeatIdle ==
  /\ fbChildren = <<>>
  /\ fbVms = <<>>
  /\ fbData = <<>>
  /\ vmKey = <<>>
  /\ vmValue = <<>>
  /\ rNext = 0
  /\ rTrackBy = FALSE
  /\ rReconciles = -1
  /\ rCall = NoRepeatCall

SetRepeat(st) ==
  /\ SetHeap(st.h)
  /\ fbChildren' = st.children
  /\ fbVms' = st.vms
  /\ fbData' = st.data
  /\ vmKey' = st.key
  /\ vmValue' = st.value
  /\ rNext' = st.next

\* compile() of the node that carries the repeat directive; rReconciles is
\* -1 until then.
CompileRepeat ==
  \E list \in Lists, trackBy \in BOOLEAN :
    /\ rReconciles = -1
    /\ \E st \in {compileRepeat(RepeatState, list)} :
          /\ SetRepeat(st)
          /\ rCall' = [op |-> "compile", trackBy |-> trackBy, oldData |-> <<>>,
                       oldChildren |-> <<>>, oldVms |-> <<>>, removed |-> st.removed,
                       compiled |-> st.compiled, moved |-> st.moved,
                       pure |-> Len(pureChildren)]
    /\ rTrackBy' = trackBy
    /\ rReconciles' = 0
    /\ UNCHANGED <<nodeType, lastCall, nonRepeatVars>>

\* A flush that runs the block's handler with the list `data`.
Reconcile ==
  \E data \in Lists :
    /\ rReconciles >= 0
    /\ rReconciles < MaxReconciles
    /\ \E st \in {reconcile(RepeatState, data, rTrackBy)} :
          /\ st.next <= RStatic + RepeatElems + 1
          /\ SetRepeat(st)
          /\ rCall' = [op |-> "reconcile", trackBy |-> rTrackBy, oldData |-> fbData,
                       oldChildren |-> fbChildren, oldVms |-> fbVms,
                       removed |-> st.removed, compiled |-> st.compiled,
                       moved |-> st.moved, pure |-> Len(pureChildren)]
    /\ rReconciles' = rReconciles + 1
    /\ UNCHANGED <<nodeType, lastCall, rTrackBy, nonRepeatVars>>

\* A flush that runs the block's handler with null or undefined.
ReconcileNoData ==
  /\ rReconciles >= 0
  /\ rReconciles < MaxReconciles
  /\ \E st \in {reconcileNoData(RepeatState)} :
        /\ SetRepeat(st)
        /\ rCall' = [op |-> "reconcileNoData", trackBy |-> rTrackBy, oldData |-> fbData,
                     oldChildren |-> fbChildren, oldVms |-> fbVms,
                     removed |-> st.removed, compiled |-> st.compiled,
                     moved |-> st.moved, pure |-> Len(pureChildren)]
  /\ rReconciles' = rReconciles + 1
  /\ UNCHANGED <<nodeType, lastCall, rTrackBy, nonRepeatVars>>

RepeatNext == CompileRepeat \/ Reconcile \/ ReconcileNoData

(***************************************************************************)
(* The attribute and style setters of an element attached to a document:   *)
(* setAttr, setStyle, setIdStyle, setTagStyle and setClassStyle.  The      *)
(* tables map a key to its value, or to Absent.                            *)
(***************************************************************************)
SetterKeys == {"color"}
SetterValues == {"", "red", "blue"}

\* The tables of the element the setters work on, and the messages the
\* running call handed to taskCenter.send.
ElementTables ==
  [attr |-> attr, style |-> style, classStyle |-> classStyle, idStyle |-> idStyle,
   tagStyle |-> tagStyle, updates |-> <<>>]

\* `result = {}; result[key] = value`
OneKey(key, value) == [EmptyStyle EXCEPT ![key] = value]

UpdateMsg(action, payload) == [action |-> action, payload |-> payload]

\* Element.toStyle on the tables el, for one sort outcome per layer.
toStyleOf(el, classKeys, idKeys, inlineKeys) ==
  assignStyle(assignStyle(assignStyle(el.tagStyle, el.classStyle, classKeys),
                          el.idStyle, idKeys),
              el.style, inlineKeys)

\* The objects toStyle can return on the tables el.
toStyleOutcomes(el) ==
  {toStyleOf(el, classKeys, idKeys, inlineKeys) :
     classKeys \in SortOutcomes(el.classStyle), idKeys \in SortOutcomes(el.idStyle),
     inlineKeys \in SortOutcomes(el.style)}

\* setAttr that returns whenever silent is set or the value is the stored one.
setAttrSkipsSilentOrSame(el, key, value, silent) ==
  IF el.attr[key] = value \/ silent THEN el
  ELSE [el EXCEPT !.attr[key] = value,
                  !.updates = Append(@, UpdateMsg("updateAttrs", OneKey(key, value)))]

\* Element.setAttr
setAttr(el, key, value, silent) ==
  IF el.attr[key] = value /\ silent # FALSE THEN el
  ELSE LET el1 == [el EXCEPT !.attr[key] = value]
       IN IF ~silent
          THEN [el1 EXCEPT !.updates = Append(@, UpdateMsg("updateAttrs", OneKey(key, value)))]
          ELSE el1

\* Element.setStyle: the message carries this.toStyle(), resolved is the
\* object that call returns.
setStyle(el, key, value, silent, resolvedStyle) ==
  IF el.style[key] = value /\ silent # FALSE THEN el
  ELSE LET el1 == [el EXCEPT !.style[key] = value]
       IN IF ~silent
          THEN [el1 EXCEPT !.updates = Append(@, UpdateMsg("updateStyle", resolvedStyle))]
          ELSE el1

\* setIdStyle without the test of the inline style.
setIdStyleOverInline(el, key, value, silent) ==
  IF el.idStyle[key] = value /\ silent # FALSE THEN el
  ELSE LET el1 == [el EXCEPT !.idStyle[key] = value]
       IN IF ~silent
          THEN [el1 EXCEPT !.updates = Append(@, UpdateMsg("updateStyle", OneKey(key, value)))]
          ELSE el1

\* Element.setIdStyle
setIdStyle(el, key, value, silent) ==
  IF el.idStyle[key] = value /\ silent # FALSE THEN el
  ELSE IF Truthy(el.style[key]) THEN el
  ELSE LET el1 == [el EXCEPT !.idStyle[key] = value]
       IN IF ~silent
          THEN [el1 EXCEPT !.updates = Append(@, UpdateMsg("updateStyle", OneKey(key, value)))]
          ELSE el1

\* Element.setTagStyle
setTagStyle(el, key, value, silent) ==
  IF el.tagStyle[key] = value /\ silent # FALSE THEN el
  ELSE IF Truthy(el.style[key]) \/ Truthy(el.idStyle[key]) \/ Truthy(el.classStyle[key]) THEN el
  ELSE LET el1 == [el EXCEPT !.tagStyle[key] = value]
       IN IF ~silent
          THEN [el1 EXCEPT !.updates = Append(@, UpdateMsg("updateStyle", OneKey(key, value)))]
          ELSE el1

\* Element.setClassStyle: every key the class style holds is set to '',
\* then the keys of the new class style are assigned.
setClassStyle(el, newClassStyle, resolvedStyle) ==
  [el EXCEPT !.classStyle = [k \in StyleKeys |->
                               IF newClassStyle[k] # Absent THEN newClassStyle[k]
                               ELSE IF @[k] # Absent THEN "" ELSE Absent],
             !.updates = Append(@, UpdateMsg("updateStyle", resolvedStyle))]

NoSetCall == [op |-> "none", key |-> "color", value |-> "", silent |-> FALSE, old |-> Absent]

\* No call has written to any layer yet.
NothingWritten ==
  [style |-> EmptyStyle, idStyle |-> EmptyStyle, classStyle |-> EmptyStyle,
   tagStyle |-> EmptyStyle]

\* The element after construction without props.
SetterInit ==
  /\ attr = EmptyStyle
  /\ updates = <<>>
  /\ setCall = NoSetCall
  /\ written = NothingWritten

\* The setter state of the specifications that do not exercise it.
SetterIdle ==
  /\ attr = EmptyStyle
  /\ updates = <<>>
  /\ setCall = NoSetCall
  /\ written = NothingWritten

SetTables(el) ==
  /\ attr' = el.attr
  /\ style' = el.style
  /\ classStyle' = el.classStyle
  /\ idStyle' = el.idStyle
  /\ tagStyle' = el.tagStyle
  /\ updates' = el.updates

SetAttr ==
  \E key \in SetterKeys, value \in SetterValues, silent \in BOOLEAN :
    /\ SetTables(setAttr(ElementTables, key, value, silent))
    /\ setCall' = [op |-> "setAttr", key |-> key, value |-> value, silent |-> silent,
                   old |-> attr[key]]
    /\ UNCHANGED <<written, resolved, stylePc, nonSetterVars>>

SetStyle ==
  \E key \in SetterKeys, value \in SetterValues, silent \in BOOLEAN :
    /\ \E resolvedStyle \in toStyleOutcomes([ElementTables EXCEPT !.style[key] = value]) :
         SetTables(setStyle(ElementTables, key, value, silent, resolvedStyle))
    /\ setCall' = [op |-> "setStyle", key |-> key, value |-> value, silent |-> silent,
                   old |-> style[key]]
    /\ written' = [written EXCEPT !.style[key] = value]
    /\ UNCHANGED <<resolved, stylePc, nonSetterVars>>

SetIdStyle ==
  \E key \in SetterKeys, value \in SetterValues, silent \in BOOLEAN :
    /\ SetTables(setIdStyle(ElementTables, key, value, silent))
    /\ setCall' = [op |-> "setIdStyle", key |-> key, value |-> value, silent |-> silent,
                   old |-> idStyle[key]]
    /\ written' = [written EXCEPT !.idStyle[key] = value]
    /\ UNCHANGED <<resolved, stylePc, nonSetterVars>>

SetTagStyle ==
  \E key \in SetterKeys, value \in SetterValues, silent \in BOOLEAN :
    /\ SetTables(setTagStyle(ElementTables, key, value, silent))
    /\ setCall' = [op |-> "setTagStyle", key |-> key, value |-> value, silent |-> silent,
                   old |-> tagStyle[key]]
    /\ written' = [written EXCEPT !.tagStyle[key] = value]
    /\ UNCHANGED <<resolved, stylePc, nonSetterVars>>

SetClassStyle ==
  \E key \in SetterKeys, value \in SetterValues :
    /\ \E resolvedStyle \in
            toStyleOutcomes(setClassStyle(ElementTables, OneKey(key, value), EmptyStyle)) :
         SetTables(setClassStyle(ElementTables, OneKey(key, value), resolvedStyle))
    /\ setCall' = [op |-> "setClassStyle", key |-> key, value |-> value, silent |-> FALSE,
                   old |-> classStyle[key]]
    /\ written' = [written EXCEPT !.classStyle =
                      setClassStyle([ElementTables EXCEPT !.classStyle = written.classStyle],
                                    OneKey(key, value), EmptyStyle).classStyle]
    /\ UNCHANGED <<resolved, stylePc, nonSetterVars>>

SetterNext == SetAttr \/ SetStyle \/ SetIdStyle \/ SetTagStyle \/ SetClassStyle

(***************************************************************************)
(* The template compiler: build and compile with its six dispatch paths.   *)
(* A template is a forest of nodes; a node records the keys the compiler   *)
(* reads.  The state threaded through the functions holds app.lastSignal,  *)
(* global.treeModeParentNode, the error raised so far and a trace of what  *)
(* the functions did, every entry with app.lastSignal and the marker as    *)
(* they stood then.                                                        *)
(* The listeners bound to the first element of a Vm and the bindings made  *)
(* by bindElement leave no entry in the trace.                             *)
(***************************************************************************)
CallStackLimit == 9   \* nested compile calls the engine's call stack holds
MaxAttach == 3        \* the attachTarget calls one of which may return -1

NoError == "none"

\* The nodes of the template forest: the template of the Vm that is built
\* (TRoot with up to two descendants) and the template of the registered
\* custom component (a div that holds a slot).
TRoot == 1
TChild == 2
TLast == 3
CRoot == 4
CSlot == 5
TemplateNodes == TRoot..CSlot

\* The lists the repeat getters return; '' is a falsy item.
listOf(repeat) ==
  CASE repeat = "ab" -> <<"a", "b">>
    [] repeat = "a0" -> <<"a", "">>
    [] OTHER -> <<>>

\* name is attr.name of a slot node and attr.slot of any other node, "none"
\* when the attribute is absent.
TemplateNode(type, hasAttr, append, repeat, shown, kids) ==
  [type |-> type, hasAttr |-> hasAttr, append |-> append, repeat |-> repeat,
   shown |-> shown, children |-> kids, name |-> "none"]

\* The names a slot attribute can hold.
SlotNames == {"none", "x"}

Named(node, name) == [node EXCEPT !.name = IF node.hasAttr THEN name ELSE "none"]

PlainNode(type, kids) == TemplateNode(type, TRUE, "none", "none", "none", kids)

\* The shapes of the built template: which descendants TRoot and TChild have.
Shapes == {<<<<>>, <<>>>>, <<<<TChild>>, <<>>>>, <<<<TChild>>, <<TLast>>>>,
           <<<<TChild, TLast>>, <<>>>>}

\* The templates that are built.  The children of a custom component may
\* name the slot they go to, and the slot of the component may have a name.
Templates ==
  {[n \in TemplateNodes |->
      CASE n = TRoot -> TemplateNode(rt, ra, rp, rr, rs, sh[1])
        [] n = TChild -> IF sh[1] = <<>> THEN PlainNode("div", <<>>)
                         ELSE Named(TemplateNode(ct, ca, cp, "none", "none", sh[2]),
                                    IF rt = "comp" THEN cn ELSE "none")
        [] n = TLast -> PlainNode("div", <<>>)
        [] n = CRoot -> PlainNode("div", <<CSlot>>)
        [] OTHER -> Named(TemplateNode("slot", sa \/ rt # "comp", "none", "none", "none", <<>>),
                          IF rt = "comp" THEN sn ELSE "none")] :
     rt \in {"div", "block", "slot", "comp"}, ra \in BOOLEAN, rp \in {"none", "tree"},
     rr \in {"none", "ab", "a0"}, rs \in {"none", "true", "false"}, sh \in Shapes,
     ct \in {"div", "block"}, ca \in BOOLEAN, cp \in {"none", "tree"}, sa \in BOOLEAN,
     cn \in SlotNames, sn \in SlotNames}

\* The document element, the destination of the template of a page.
DocumentElement == [kind |-> "document", id |-> 0]
\* An element that is the destination of the template of a component.
ParentElement == [kind |-> "element", id |-> 0]

\* The Vm handed to build: a Vm without slot context.
RootVm == [id |-> "vm", items |-> <<>>, slotContext |-> <<>>]

NoMeta == [repeat |-> <<>>, shown |-> FALSE]

CompileState(abortAt) ==
  [lastSignal |-> lastSignal, marker |-> treeModeParentNode, trace |-> <<>>,
   threw |-> NoError, depth |-> 0, attached |-> 0, abortAt |-> abortAt, next |-> 1]

Log(st, e) ==
  [st EXCEPT !.trace = Append(@, e @@ [sig |-> st.lastSignal, marker |-> st.marker])]

Throw(st, error) == [st EXCEPT !.threw = error]

\* `app.lastSignal === -1` at the top of compile.
signalIgnoredAtEntry(st) == FALSE
signalAtEntry(st) == st.lastSignal = -1

\* `app.lastSignal !== -1` in the loops and in compileNativeComponent.
signalled(st) == st.lastSignal = -1

targetIsSlot(target) == template[target].type = "slot"

\* `!hasOwn(meta, 'repeat') && target.repeat`
targetNeedCheckRepeat(target, meta) ==
  meta.repeat = <<>> /\ template[target].repeat # "none"

\* `!hasOwn(meta, 'shown') && target.shown`
targetNeedCheckShown(target, meta) ==
  ~meta.shown /\ template[target].shown # "none"

\* vm.app.customComponentMap[type]: one component is registered.
targetIsComposed(type) == type = "comp"

targetIsBlock(target) == template[target].type = "block"

\* `dest.type === 'document'` taken as never true.
destIsNeverDocument(dest) == FALSE
\* `dest.type === 'document'`
destIsDocument(dest) == dest.kind = "document"

isBlock(node) == node.kind = "block"

\* createBlock(vm, dest) of the DOM helpers: the block numbered st.next.
createFragBlock(st, dest) ==
  Log([st EXCEPT !.next = @ + 1], [ev |-> "createBlock", block |-> st.next, dest |-> dest])

\* watchBlock: the watcher is registered and its first value returned.
watchBlock(st, block, type) ==
  Log(st, [ev |-> "watch", type |-> type, block |-> block.id])

\* attachTarget(element, dest) of the DOM helpers; the value it returns is
\* the signal of the native host, -1 for the call numbered abortAt.
attachTargetSignal(st, element, dest) ==
  LET signal == IF st.attached + 1 = st.abortAt THEN -1 ELSE 0
  IN [Log(st, [ev |-> "attachTarget", el |-> element.id, dest |-> dest])
        EXCEPT !.attached = @ + 1, !.lastSignal = signal]

RECURSIVE compile(_, _, _, _, _)

\* compileChildren and the loop of compileBlock: `children.every`.
RECURSIVE compileChildren(_, _, _, _, _)
compileChildren(st, vm, list, i, dest) ==
  IF i > Len(list) \/ st.threw # NoError THEN st
  ELSE Bind(compile(Log(st, [ev |-> "child", node |-> list[i]]), vm, list[i], dest, NoMeta),
            LAMBDA st1 :
              IF signalled(st1) THEN st1 ELSE compileChildren(st1, vm, list, i + 1, dest))

\* `attr.slot || 'default'` and `attr.name || 'default'`
slotNameOf(node) == IF template[node].name = "none" THEN "default" ELSE template[node].name

\* namedContents[slotName]: the children of the component's node that go to
\* the slot, <<>> when there is no such entry.
namedContentOf(content, slotName) ==
  SelectSeq(content, LAMBDA item : slotNameOf(item) = slotName)

compileSlot(st, vm, target, dest) ==
  IF vm.slotContext = <<>> THEN st
  ELSE Bind(createFragBlock(st, dest),
            LAMBDA st1 :
              LET slotDest == [kind |-> "block", id |-> st.next, list |-> FALSE]
                  namedContent == namedContentOf(vm.slotContext[1].content,
                                                 slotNameOf(target))
              IN IF ~template[target].hasAttr THEN Throw(st1, "TypeError")
                 ELSE IF namedContent = <<>>
                 THEN compileChildren(st1, vm, template[target].children, 1, slotDest)
                 ELSE compileChildren(st1, vm.slotContext[1].parentVm, namedContent, 1,
                                      slotDest))

\* mergeContext: a context that delegates to `context` and holds the item.
mergeContext(context, item) == [context EXCEPT !.items = Append(@, item)]

\* bindRepeat.compileItem
compileItemOf(st, item, index, context, target, fragBlock) ==
  LET newContext == mergeContext(context, item)
  IN compile(Log(st, [ev |-> "vmsPush", block |-> fragBlock.id, index |-> index,
                      item |-> item]),
             newContext, target, fragBlock, [repeat |-> <<item>>, shown |-> FALSE])

\* `list.forEach((item, index) => compileItem(item, index, vm))`
RECURSIVE compileItemsOf(_, _, _, _, _, _)
compileItemsOf(st, list, i, vm, target, fragBlock) ==
  IF i > Len(list) \/ st.threw # NoError THEN st
  ELSE Bind(compileItemOf(st, list[i], i - 1, vm, target, fragBlock),
            LAMBDA st1 : compileItemsOf(st1, list, i + 1, vm, target, fragBlock))

\* compileRepeat and bindRepeat up to the end of the initial list.
compileRepeatBlock(st, vm, target, dest) ==
  Bind(createFragBlock(st, dest),
       LAMBDA st1 :
         LET fragBlock == [kind |-> "block", id |-> st.next, list |-> TRUE]
         IN compileItemsOf(watchBlock(st1, fragBlock, "repeat"),
                           listOf(template[target].repeat), 1, vm, target, fragBlock))

\* compileShown and bindShown up to the compilation of the shown content.
compileShown(st, vm, target, dest, meta) ==
  Bind(createFragBlock(st, dest),
       LAMBDA st1 :
         LET fragBlock == [kind |-> "block", id |-> st.next, list |-> FALSE]
             newMeta == [shown |-> TRUE,
                         repeat |-> IF meta.repeat # <<>> /\ Truthy(meta.repeat[1])
                                    THEN meta.repeat ELSE <<>>]
             st2 == watchBlock(st1, fragBlock, "shown")
         IN IF template[target].shown = "true"
            THEN compile(st2, vm, target, fragBlock, newMeta)
            ELSE st2)

compileBlock(st, vm, target, dest) ==
  Bind(createFragBlock(st, dest),
       LAMBDA st1 :
         compileChildren(st1, vm, template[target].children, 1,
                         [kind |-> "block", id |-> st.next, list |-> FALSE]))

\* build(vm)
build(st, vm, parent) ==
  Bind(compile(st, vm, IF vm.id = "vm" THEN TRoot ELSE CRoot, parent, NoMeta),
       LAMBDA st1 :
         IF st1.threw # NoError THEN st1 ELSE Log(st1, [ev |-> "ready", vm |-> vm.id]))

\* 'hook:_innerInit' of the component's Vm: the children of the node are
\* grouped by `item.attr.slot || 'default'`.
innerInit(st, target) ==
  IF \E i \in 1..Len(template[target].children) :
       ~template[template[target].children[i]].hasAttr
  THEN Throw(st, "TypeError")
  ELSE st

\* new Vm(type, component, vm, dest, undefined, hooks): the hook runs, then
\* the template of the component is built against the new Vm.
newVm(st, vm, target, dest) ==
  LET subVm == [id |-> "sub", items |-> <<>>,
                slotContext |-> <<[content |-> template[target].children, parentVm |-> vm]>>]
  IN Bind(innerInit(Log(st, [ev |-> "newVm", node |-> target]), target),
          LAMBDA st1 : IF st1.threw # NoError THEN st1 ELSE build(st1, subVm, dest))

compileCustomComponent(st, vm, target, dest) == newVm(st, vm, target, dest)

\* Tree mode taken by every element that asks for it, nested or not.
ownsTreeModeWhenAsked(wantsTree, marker) == wantsTree
\* `if (treeMode) { if (!global.treeModeParentNode) {...} else { treeMode = false; } }`
ownsTreeMode(wantsTree, marker) == wantsTree /\ ~marker

\* compileNativeComponent
compileNative(st, vm, target, dest) ==
  LET element == [kind |-> "element", id |-> st.next]
      isBody == ~isBlock(dest) /\ dest.kind = "document"
      st1 == Log([st EXCEPT !.next = @ + 1],
                 [ev |-> IF isBody THEN "createBody" ELSE "createElement",
                  el |-> st.next, node |-> target])
      wantsTree == template[target].append = "tree"
      treeMode == ownsTreeMode(wantsTree, st.marker)
      st2 == IF treeMode THEN [st1 EXCEPT !.marker = TRUE] ELSE st1
  IN Bind(IF ~signalled(st2) /\ ~treeMode THEN attachTargetSignal(st2, element, dest) ELSE st2,
          LAMBDA st3 :
            Bind(IF ~signalled(st3)
                 THEN compileChildren(st3, vm, template[target].children, 1, element)
                 ELSE st3,
                 LAMBDA st4 :
                   IF st4.threw = NoError /\ ~signalled(st4) /\ treeMode
                   THEN attachTargetSignal([st4 EXCEPT !.marker = FALSE], element, dest)
                   ELSE st4))

\* compile: the abort check, then the first path that applies.
compile(st, vm, target, dest, meta) ==
  IF st.threw # NoError THEN st
  ELSE IF st.depth >= CallStackLimit THEN Throw(st, "RangeError")
  ELSE
    LET call(path) ==
          Log([st EXCEPT !.depth = @ + 1],
              [ev |-> "compile", node |-> target, vm |-> vm.id, items |-> vm.items,
               dest |-> dest, meta |-> meta, path |-> path])
        done(st1) == IF st1.threw # NoError THEN st1 ELSE [st1 EXCEPT !.depth = @ - 1]
    IN IF signalAtEntry(st) THEN done(call("abort"))
       ELSE IF targetIsSlot(target) THEN done(compileSlot(call("slot"), vm, target, dest))
       ELSE IF targetNeedCheckRepeat(target, meta)
       THEN IF destIsDocument(dest)
            THEN done(Log(call("repeat"), [ev |-> "warn", node |-> target]))
            ELSE done(compileRepeatBlock(call("repeat"), vm, target, dest))
       ELSE IF targetNeedCheckShown(target, meta)
       THEN IF destIsDocument(dest)
            THEN done(Log(call("shown"), [ev |-> "warn", node |-> target]))
            ELSE done(compileShown(call("shown"), vm, target, dest, meta))
       ELSE IF targetIsComposed(template[target].type)
       THEN done(compileCustomComponent(call("custom"), vm, target, dest))
       ELSE IF targetIsBlock(target) THEN done(compileBlock(call("block"), vm, target, dest))
       ELSE done(compileNative(call("native"), vm, target, dest))

CompileInit ==
  /\ template \in Templates
  /\ parentEl \in {DocumentElement, ParentElement}
  \* the native host may have asked to abort before the Vm is built
  /\ lastSignal \in {0, -1}
  /\ treeModeParentNode = FALSE
  /\ trace = <<>>
  /\ threw = NoError
  /\ built = FALSE

\* The compiler state of the specifications that do not exercise it.
CompileIdle ==
  /\ template = <<>>
  /\ parentEl = DocumentElement
  /\ lastSignal = 0
  /\ treeModeParentNode = FALSE
  /\ trace = <<>>
  /\ threw = NoError
  /\ built = FALSE

\* build(vm) for the Vm of the template; the native host answers -1 to the
\* attachTarget call numbered abortAt, if any.
Build ==
  \E abortAt \in 0..MaxAttach :
    /\ ~built
    /\ \E st \in {build(CompileState(abortAt), RootVm, parentEl)} :
          /\ lastSignal' = st.lastSignal
          /\ treeModeParentNode' = st.marker
          /\ trace' = st.trace
          /\ threw' = st.threw
    /\ built' = TRUE
    /\ UNCHANGED <<template, parentEl, nonCompileVars>>

CompileNext == Build

(***************************************************************************)
(* The destroy hook compileNativeComponent gives the elements it creates,  *)
(* and Element.destroy running it.  A watcher is numbered by its position  *)
(* in teardowns; the watchers of an element are the ones bindElement       *)
(* pushed to element.watchers.                                             *)
(***************************************************************************)
MaxHookElements == 3   \* elements made by compileNativeComponent
MaxWatchers == 3       \* watchers bound to them

\* A block as destination.
BlockDest == [kind |-> "block", id |-> 0, list |-> FALSE]

\* createBody / createElement and the assignment of element.destroyHook:
\* the body gets no hook.
createNativeElement(dest) ==
  LET isBody == ~isBlock(dest) /\ dest.kind = "document"
  IN [body |-> isBody, destroyHook |-> ~isBody, watchers |-> <<>>, destroyed |-> FALSE]

\* element.destroyHook: teardown() on every watcher, then watchers = [].
destroyHook(el, torn) ==
  [el |-> [el EXCEPT !.watchers = <<>>],
   torn |-> [w \in 1..Len(torn) |->
               torn[w] + Cardinality({i \in 1..Len(el.watchers) : el.watchers[i] = w})]]

\* Element.destroy, for an element that has not been destroyed: the hook
\* runs if there is one and is set to null.
elementDestroy(el, torn) ==
  LET r == IF el.destroyHook THEN destroyHook(el, torn) ELSE [el |-> el, torn |-> torn]
  IN [r EXCEPT !.el.destroyHook = FALSE, !.el.destroyed = TRUE]

NoHookCall == [op |-> "none", el |-> 0, watchers |-> <<>>, threw |-> FALSE]

HookInit ==
  /\ elements = <<>>
  /\ teardowns = <<>>
  /\ hookCall = NoHookCall

\* The hook state of the specifications that do not exercise it.
HookIdle ==
  /\ elements = <<>>
  /\ teardowns = <<>>
  /\ hookCall = NoHookCall

\* compileNativeComponent up to the assignment of the hook; only the first
\* element of a page has the document element as destination.
CompileNativeComponent ==
  \E dest \in {DocumentElement, ParentElement, BlockDest} :
    /\ Len(elements) < MaxHookElements
    /\ dest = DocumentElement => elements = <<>>
    /\ elements' = Append(elements, createNativeElement(dest))
    /\ hookCall' = [NoHookCall EXCEPT !.op = "compile", !.el = Len(elements) + 1]
    /\ UNCHANGED <<teardowns, nonHookVars>>

\* A binding of the element's template registers a watcher:
\* element.watchers.push(watcher).
BindWatcher ==
  \E e \in 1..Len(elements) :
    /\ ~elements[e].destroyed
    /\ Len(teardowns) < MaxWatchers
    /\ elements' = [elements EXCEPT ![e].watchers = Append(@, Len(teardowns) + 1)]
    /\ teardowns' = Append(teardowns, 0)
    /\ hookCall' = [NoHookCall EXCEPT !.op = "watch", !.el = e]
    /\ UNCHANGED nonHookVars

\* destroy() on one of the elements; on a destroyed element it raises the
\* TypeError of `this._classList.length = 0` before the hook is looked at.
DestroyElement ==
  \E e \in 1..Len(elements) :
    /\ IF elements[e].destroyed
       THEN UNCHANGED <<elements, teardowns>>
       ELSE \E r \in {elementDestroy(elements[e], teardowns)} :
              /\ elements' = [elements EXCEPT ![e] = r.el]
              /\ teardowns' = r.torn
    /\ hookCall' = [op |-> "destroy", el |-> e, watchers |-> elements[e].watchers,
                    threw |-> elements[e].destroyed]
    /\ UNCHANGED nonHookVars

HookNext == CompileNativeComponent \/ BindWatcher \/ DestroyElement

(***************************************************************************)
(* The specifications.                                                     *)
(***************************************************************************)
(***************************************************************************)
(* Events: Element.addEvent, removeEvent and fireEvent on a chain of       *)
(* document-attached elements; element 1 is the innermost, the parent of   *)
(* element n is element n + 1 and the last element has no parent.  A       *)
(* handler returns a value that names the handler and the element it was   *)
(* called on; handler "g" calls event.stopPropagation(), handler "f" does  *)
(* not.                                                                    *)
(***************************************************************************)
EventElems == 3     \* elements of the chain events are fired on

EvElems == 1..EventElems
EventTypes == {"click", "appear"}
Handlers == {"f", "g"}

BUBBLE_EVENTS ==
  {"mouse", "click", "longpress", "touchstart", "touchmove", "touchend", "panstart",
   "panmove", "panend", "horizontalpan", "verticalpan", "swipe"}

stopsPropagation(handler) == handler = "g"

\* this._parentNode, 0 when absent.
parentOf(el) == IF el < EventElems THEN el + 1 ELSE 0

EventMsg(action, el, type) == [action |-> action, ref |-> el, type |-> type]

HandlerResult(handler, el) == [by |-> handler, on |-> el]
NoResult == [by |-> "null", on |-> 0]

\* The state the event operations work on.
EventState ==
  [event |-> event, sent |-> <<>>, invoked |-> <<>>, result |-> NoResult, threw |-> FALSE]

\* addEvent that registers the handler and sends whatever is registered.
addEventReplaces(st, el, type, handler) ==
  [st EXCEPT !.event[el][type] = handler,
             !.sent = Append(@, EventMsg("addEvent", el, type))]

\* Element.addEvent
addEvent(st, el, type, handler) ==
  IF st.event[el][type] = Absent
  THEN [st EXCEPT !.event[el][type] = handler,
                  !.sent = Append(@, EventMsg("addEvent", el, type))]
  ELSE st

\* Element.removeEvent
removeEvent(st, el, type) ==
  IF st.event[el][type] # Absent
  THEN [st EXCEPT !.event[el][type] = Absent,
                  !.sent = Append(@, EventMsg("removeEvent", el, type))]
  ELSE st

\* The bubbling test without the stop flag.
shouldBubbleDespiteStop(isStopPropagation, isBubble, type) ==
  isBubble /\ type \in BUBBLE_EVENTS

\* `!isStopPropagation && isBubble && BUBBLE_EVENTS.indexOf(type) !== -1`
shouldBubble(isStopPropagation, isBubble, type) ==
  ~isStopPropagation /\ isBubble /\ type \in BUBBLE_EVENTS

\* Element.fireEvent: hasEvent tells whether the event argument is an
\* object (null or undefined otherwise).  The value of the recursive call is
\* dropped; writing event.currentTarget raises a TypeError without an event.
RECURSIVE fireEvent(_, _, _, _, _)
fireEvent(st, el, type, hasEvent, isBubble) ==
  LET eventDesc == st.event[el][type]
      called == eventDesc # Absent /\ hasEvent
      result == IF called THEN HandlerResult(eventDesc, el) ELSE NoResult
      isStopPropagation == called /\ stopsPropagation(eventDesc)
      st1 == IF called THEN [st EXCEPT !.invoked = Append(@, el)] ELSE st
      st2 == IF shouldBubble(isStopPropagation, isBubble, type) /\ parentOf(el) # 0
             THEN IF ~hasEvent THEN [st1 EXCEPT !.threw = TRUE]
                  ELSE fireEvent(st1, parentOf(el), type, hasEvent, isBubble)
             ELSE st1
  IN IF st2.threw THEN st2 ELSE [st2 EXCEPT !.result = result]

NoEventCall == [op |-> "none"]

\* The elements after construction: `this._event = {}`.
EventInit ==
  /\ event = [el \in EvElems |-> [type \in EventTypes |-> Absent]]
  /\ evSent = <<>>
  /\ lastMsg = [el \in EvElems |-> [type \in EventTypes |-> "none"]]
  /\ evCall = NoEventCall

\* The event state of the specifications that do not exercise it.
EventIdle ==
  /\ event = <<>>
  /\ evSent = <<>>
  /\ lastMsg = <<>>
  /\ evCall = NoEventCall

\* The messages of a call become the last ones sent for their element and type.
SetEvents(st, el, type) ==
  /\ event' = st.event
  /\ evSent' = st.sent
  /\ lastMsg' = IF st.sent = <<>> THEN lastMsg
                ELSE [lastMsg EXCEPT ![el][type] = st.sent[Len(st.sent)].action]

AddEvent ==
  \E el \in EvElems, type \in EventTypes, handler \in Handlers :
    /\ SetEvents(addEvent(EventState, el, type, handler), el, type)
    /\ evCall' = [op |-> "addEvent", el |-> el, type |-> type, handler |-> handler]
    /\ UNCHANGED nonEventVars

RemoveEvent ==
  \E el \in EvElems, type \in EventTypes :
    /\ SetEvents(removeEvent(EventState, el, type), el, type)
    /\ evCall' = [op |-> "removeEvent", el |-> el, type |-> type]
    /\ UNCHANGED nonEventVars

FireEvent ==
  \E el \in EvElems, type \in EventTypes, hasEvent \in BOOLEAN, isBubble \in BOOLEAN :
    \E st \in {fireEvent(EventState, el, type, hasEvent, isBubble)} :
      /\ SetEvents(st, el, type)
      /\ evCall' = [op |-> "fireEvent", el |-> el, type |-> type, hasEvent |-> hasEvent,
                    isBubble |-> isBubble, invoked |-> st.invoked, result |-> st.result,
                    threw |-> st.threw]
      /\ UNCHANGED nonEventVars

EventNext == AddEvent \/ RemoveEvent \/ FireEvent

(***************************************************************************)
(* The shown directive: bindShown and the handler it hands to watchBlock,  *)
(* for one shown block of an application with a differ.  The block's       *)
(* watchBlock config and its differ entry are the differ variables,        *)
(* restricted to the block.  compile(vm, target, fragBlock, meta) puts the *)
(* content into the block and removeTarget(fragBlock, true) takes it out,  *)
(* leaving the markers.                                                    *)
(***************************************************************************)
ShownBlock == 2
ShownValues == {"a", "b", "", Undefined}

\* The block as bindShown and the handler see it, with what the running
\* call did so far.
ShownState ==
  [display |-> display, contentCount |-> contentCount, compiles |-> 0, removals |-> 0]

\* compile(vm, target, fragBlock, meta) of the content.
compileContent(sh) == [sh EXCEPT !.contentCount = @ + 1, !.compiles = @ + 1]

\* removeTarget(fragBlock, true)
removeContent(sh) == [sh EXCEPT !.contentCount = 0, !.removals = @ + 1]

\* The handler bindShown hands to watchBlock.
shownHandler(sh, value) ==
  IF sh.display = Truthy(value) THEN sh
  ELSE LET sh1 == [sh EXCEPT !.display = Truthy(value)]
       IN IF Truthy(value) THEN compileContent(sh1) ELSE removeContent(sh1)

\* bindShown after watchBlock returned the getter's value.
bindShown(sh, value) ==
  LET sh1 == [sh EXCEPT !.display = Truthy(value)]
  IN IF Truthy(value) THEN compileContent(sh1) ELSE sh1

\* Differ.flush for the block: the entry is taken out and the function
\* watchBlock appended is called.  `reentry` is the value the shown getter
\* takes through a write made while the content is compiled, Absent when
\* there is no such write; the block's watcher callback then runs inside the
\* handler.
flushShown(st, sh, reentry) ==
  LET latestValue == st.latestValue[ShownBlock]
      sh1 == shownHandler(sh, latestValue)
      reentered == reentry # Absent /\ sh1.compiles > 0
      st0 == [st EXCEPT !.map = {}]
      st1 == IF reentered THEN watchCallback(st0, ShownBlock, reentry) ELSE st0
  IN [st |-> [st1 EXCEPT !.recorded[ShownBlock] = FALSE,
                         !.latestValue[ShownBlock] = Undefined,
                         !.reentered = reentered],
      sh |-> sh1, value |-> latestValue]

NoShownCall ==
  [op |-> "none", value |-> Undefined, oldDisplay |-> FALSE, compiles |-> 0,
   removals |-> 0, reentered |-> FALSE]

\* Before compile reaches the node: the getter has a value, the block does
\* not exist yet.
ShownInit ==
  /\ display = FALSE
  /\ contentCount = 0
  /\ shownValue \in ShownValues
  /\ shCall = NoShownCall
  /\ cLatestValue = (ShownBlock :> Undefined)
  /\ cRecorded = (ShownBlock :> FALSE)
  /\ differMap = {}
  /\ wave = (ShownBlock :> <<>>)
  /\ lastFlush = [done |-> FALSE, wave |-> <<>>, calls |-> <<>>, reentry |-> NoReentry]
  /\ handlerFailed = FALSE
  /\ hasDiffer = TRUE

SetShown(sh) ==
  /\ display' = sh.display
  /\ contentCount' = sh.contentCount

SetConfig(st) ==
  /\ cLatestValue' = st.latestValue
  /\ cRecorded' = st.recorded
  /\ differMap' = st.map

\* compileShown and bindShown for the node.
BindShown ==
  /\ shCall.op = "none"
  /\ \E sh \in {bindShown(ShownState, shownValue)} :
       /\ SetShown(sh)
       /\ shCall' = [op |-> "bindShown", value |-> shownValue, oldDisplay |-> display,
                     compiles |-> sh.compiles, removals |-> sh.removals,
                     reentered |-> FALSE]
  /\ UNCHANGED <<shownValue, differVars, nonShownVars>>

\* The shown getter takes another value and the block's watcher fires; wave
\* holds the values it reported since the last flush.
ShownChanges ==
  /\ shCall.op # "none"
  /\ Len(wave[ShownBlock]) < MaxWave
  /\ \E value \in ShownValues \ {shownValue} :
       /\ shownValue' = value
       /\ SetConfig(watchCallback(DifferState, ShownBlock, value))
       /\ wave' = [wave EXCEPT ![ShownBlock] = Append(@, value)]
       /\ shCall' = [NoShownCall EXCEPT !.op = "change", !.value = value,
                                        !.oldDisplay = display]
  /\ UNCHANGED <<display, contentCount, lastFlush, handlerFailed, hasDiffer, nonShownVars>>

\* The flush that runs the block's pending callback.
FlushShown ==
  /\ DifferKey(ShownBlock) \in differMap
  /\ \E reentry \in {Absent} \cup (ShownValues \ {shownValue}) :
       \E r \in {flushShown(DifferState, ShownState, reentry)} :
         /\ SetShown(r.sh)
         /\ SetConfig(r.st)
         /\ shownValue' = IF r.st.reentered THEN reentry ELSE shownValue
         /\ shCall' = [op |-> "flush", value |-> r.value, oldDisplay |-> display,
                       compiles |-> r.sh.compiles, removals |-> r.sh.removals,
                       reentered |-> r.st.reentered]
         /\ lastFlush' = [done |-> TRUE, wave |-> wave,
                          calls |-> <<[ref |-> ShownBlock, value |-> r.value]>>,
                          reentry |-> IF r.st.reentered
                                      THEN [ref |-> ShownBlock, value |-> reentry]
                                      ELSE NoReentry]
  /\ wave' = [wave EXCEPT ![ShownBlock] = <<>>]
  /\ UNCHANGED <<handlerFailed, hasDiffer, nonShownVars>>

ShownNext == BindShown \/ ShownChanges \/ FlushShown

\* The shown state of the specifications that do not exercise it.
ShownIdle ==
  /\ display = FALSE
  /\ contentCount = 0
  /\ shownValue = Undefined
  /\ shCall = [op |-> "none"]

(***************************************************************************)
(* Component data: targetIsComposed and the data every instance of a       *)
(* registered custom component starts from.  Data objects live in a heap,  *)
(* address -> object; an object has a property `count` and may hold a      *)
(* nested object `inner` with a property `count` of its own.  The Vm       *)
(* constructor takes component.data as the data of the new instance.       *)
(***************************************************************************)
MaxInstances == 3   \* instances made of the registered component

\* The values a property of the registered data holds: a number, NaN,
\* undefined or a function; WriteValue is the number instances write.
DataValues == {"1", "NaN", Undefined, "function"}
WriteValue == "9"

NoObject == 0
DataObject(count, inner) == [count |-> count, inner |-> inner]

\* JSON.parse(JSON.stringify(v)) of a property value v: a property that is
\* undefined or a function is left out, NaN becomes null.
jsonValue(v) ==
  CASE v \in {Undefined, "function", Absent} -> Absent
    [] v = "NaN" -> "null"
    [] OTHER -> v

\* JSON.parse(JSON.stringify(o)) of the object at addr: the objects it makes
\* are new in the heap.
jsonRoundTrip(objs, addr) ==
  LET o == objs[addr]
      objs1 == IF o.inner # NoObject
               THEN Append(objs, DataObject(jsonValue(objs[o.inner].count), NoObject))
               ELSE objs
      innerCopy == IF o.inner # NoObject THEN Len(objs1) ELSE NoObject
      objs2 == Append(objs1, DataObject(jsonValue(o.count), innerCopy))
  IN [objects |-> objs2, addr |-> Len(objs2)]

\* The heap and the component options targetIsComposed works on.
DataState == [objects |-> objects, component |-> component]

\* targetIsComposed that hands out component.data as it is.
targetIsComposedShared(st) ==
  IF st.component.initObjectData = NoObject
  THEN [st EXCEPT !.component.initObjectData = st.component.data]
  ELSE st

\* targetIsComposed for a registered component whose data is an object.
targetIsComposedData(st) ==
  LET c1 == IF st.component.initObjectData = NoObject
            THEN [st.component EXCEPT !.initObjectData = st.component.data]
            ELSE st.component
      copy == jsonRoundTrip(st.objects, c1.initObjectData)
  IN [objects |-> copy.objects, component |-> [c1 EXCEPT !.data = copy.addr]]

\* The value of the object at addr, nested object included.
DeepValue(objs, addr) ==
  <<objs[addr].count,
    IF objs[addr].inner = NoObject THEN <<>> ELSE <<objs[objs[addr].inner].count>>>>

\* The objects reached from addr.
Reach(objs, addr) ==
  {addr} \cup (IF objs[addr].inner = NoObject THEN {} ELSE {objs[addr].inner})

\* The heaps that hold the registered data and nothing else.
RegisteredHeaps ==
  {<<DataObject(count, NoObject)>> : count \in DataValues}
  \cup {<<DataObject(innerCount, NoObject), DataObject(count, 1)>> :
          innerCount \in DataValues, count \in DataValues}

\* After registration: component.data is the registered object; `registered`
\* keeps its value as it was registered.
DataInit ==
  /\ objects \in RegisteredHeaps
  /\ component = [data |-> Len(objects), initObjectData |-> NoObject,
                  registered |-> DeepValue(objects, Len(objects))]
  /\ instances = <<>>
  /\ dataCall = [op |-> "none", instance |-> 0]

\* compile of a node whose type is the registered component: targetIsComposed,
\* then the Vm constructor with the component options.
ResolveComponent ==
  /\ Len(instances) < MaxInstances
  /\ \E st \in {targetIsComposedData(DataState)} :
       /\ objects' = st.objects
       /\ component' = st.component
       /\ instances' = Append(instances,
                              [data |-> st.component.data,
                               initial |-> DeepValue(st.objects, st.component.data)])
  /\ dataCall' = [op |-> "resolve", instance |-> Len(instances) + 1]
  /\ UNCHANGED nonDataVars

\* An instance writes a property of its data, or of the nested object.
WriteData ==
  \E i \in 1..Len(instances), nested \in BOOLEAN :
    LET addr == IF nested THEN objects[instances[i].data].inner ELSE instances[i].data
    IN /\ addr # NoObject
       /\ objects' = [objects EXCEPT ![addr].count = WriteValue]
       /\ dataCall' = [op |-> "write", instance |-> i]
       /\ UNCHANGED <<component, instances, nonDataVars>>

DataNext == ResolveComponent \/ WriteData

\* The component data of the specifications that do not exercise it.
DataIdle ==
  /\ objects = <<>>
  /\ component = <<>>
  /\ instances = <<>>
  /\ dataCall = [op |-> "none", instance |-> 0]

\* The tree state of the specifications that do not exercise it.
TreeIdle ==
  /\ nodeType = <<>>
  /\ children = <<>>
  /\ pureChildren = <<>>
  /\ parentNode = <<>>
  /\ previousSibling = <<>>
  /\ nextSibling = <<>>
  /\ destroyed = {}
  /\ sent = <<>>
  /\ lastCall = [op |-> "none"]

TreeSpecInit == TreeInit /\ StyleIdle /\ DestroyIdle /\ DifferIdle /\ RepeatIdle /\ CompileIdle /\ SetterIdle /\ HookIdle
    /\ EventIdle /\ ShownIdle /\ DataIdle
TreeSpec == TreeSpecInit /\ [][TreeNext]_vars

TreeChildRefSpec == TreeSpecInit /\ [][TreeChildRefNext]_vars

StyleSpecInit == StyleInit /\ TreeIdle /\ DestroyIdle /\ DifferIdle /\ RepeatIdle /\ CompileIdle /\ SetterIdle /\ HookIdle
    /\ EventIdle /\ ShownIdle /\ DataIdle
StyleSpec == StyleSpecInit /\ [][StyleNext]_vars

DestroySpecInit == DestroyInit /\ TreeIdle /\ StyleIdle /\ DifferIdle /\ RepeatIdle /\ CompileIdle /\ SetterIdle /\ HookIdle
    /\ EventIdle /\ ShownIdle /\ DataIdle
DestroySpec == DestroySpecInit /\ [][DestroyNext]_vars

DifferSpecInit == DifferInit /\ TreeIdle /\ StyleIdle /\ DestroyIdle /\ RepeatIdle /\ CompileIdle /\ SetterIdle /\ HookIdle
    /\ EventIdle /\ ShownIdle /\ DataIdle
DifferSpec == DifferSpecInit /\ [][DifferNext]_vars

RepeatSpecInit == RepeatTreeInit /\ RepeatInit /\ StyleIdle /\ DestroyIdle /\ DifferIdle /\ CompileIdle /\ SetterIdle /\ HookIdle
    /\ EventIdle /\ ShownIdle /\ DataIdle
RepeatSpec == RepeatSpecInit /\ [][RepeatNext]_vars

CompileSpecInit ==
  CompileInit /\ TreeIdle /\ StyleIdle /\ DestroyIdle /\ DifferIdle /\ RepeatIdle /\ SetterIdle
    /\ HookIdle
    /\ EventIdle /\ ShownIdle /\ DataIdle
CompileSpec == CompileSpecInit /\ [][CompileNext]_vars

SetterSpecInit ==
  SetterInit /\ StyleIdle /\ TreeIdle /\ DestroyIdle /\ DifferIdle /\ RepeatIdle /\ CompileIdle
    /\ HookIdle
    /\ EventIdle /\ ShownIdle /\ DataIdle
SetterSpec == SetterSpecInit /\ [][SetterNext]_vars

HookSpecInit ==
  HookInit /\ TreeIdle /\ StyleIdle /\ DestroyIdle /\ DifferIdle /\ RepeatIdle /\ CompileIdle
    /\ SetterIdle
    /\ EventIdle /\ ShownIdle /\ DataIdle
HookSpec == HookSpecInit /\ [][HookNext]_vars

EventSpecInit ==
  EventInit /\ TreeIdle /\ StyleIdle /\ DestroyIdle /\ DifferIdle /\ RepeatIdle /\ CompileIdle
    /\ SetterIdle /\ HookIdle /\ ShownIdle /\ DataIdle
EventSpec == EventSpecInit /\ [][EventNext]_vars

ShownSpecInit ==
  ShownInit /\ TreeIdle /\ StyleIdle /\ DestroyIdle /\ RepeatIdle /\ CompileIdle
    /\ SetterIdle /\ HookIdle /\ EventIdle /\ DataIdle
ShownSpec == ShownSpecInit /\ [][ShownNext]_vars

DataSpecInit ==
  DataInit /\ TreeIdle /\ StyleIdle /\ DestroyIdle /\ DifferIdle /\ RepeatIdle /\ CompileIdle
    /\ SetterIdle /\ HookIdle /\ EventIdle /\ ShownIdle
DataSpec == DataSpecInit /\ [][DataNext]_vars

(***************************************************************************)
(* Properties of the child lists.                                          *)
(***************************************************************************)
RECURSIVE SelectElements(_)
SelectElements(list) ==
  IF list = <<>> THEN <<>>
  ELSE (IF isElement(Head(list)) THEN <<Head(list)>> ELSE <<>>) \o SelectElements(Tail(list))

\* C1: pureChildren is exactly the subsequence of children made of the
\* Element nodes, in the same relative order, after any sequence of
\* appendChild, insertBefore, insertAfter and removeChild calls.
C1_PureIsElementSubsequence == pureChildren = SelectElements(children)

\* C10: the sibling pointers of every node in children agree with the
\* children sequence: children[i].previousSibling is children[i-1] and
\* children[i].nextSibling is children[i+1], absent at the two ends.
C10_SiblingsAgree ==
  \A i \in 1..Len(children) :
    /\ previousSibling[children[i]] = (IF i = 1 THEN Nil ELSE children[i - 1])
    /\ nextSibling[children[i]] = (IF i = Len(children) THEN Nil ELSE children[i + 1])

(***************************************************************************)
(* Properties of the messages sent by the tree operations.                 *)
(***************************************************************************)
\* C11: a call of appendChild, insertBefore, insertAfter or removeChild on
\* an attached parent sends exactly one structural message when it changes
\* the parent's pureChildren, and no message when it leaves pureChildren
\* unchanged.
C11_OneMessagePerPureChange ==
  [][/\ pureChildren' # pureChildren => Len(sent') = 1
     /\ pureChildren' = pureChildren => Len(sent') = 0]_vars

\* The position of node in pureChildren, 0-based, -1 when absent.
PurePosition(node) == IndexOf(pureChildren, node)

\* C12: every addElement message carries as its index the position the
\* added element occupies in pureChildren right after the call.
C12_AddIndexIsPosition ==
  \A i \in 1..Len(sent) :
    sent[i].action = "addElement" => sent[i].index = PurePosition(sent[i].ref)

\* C12 as the code has it: insertBefore and insertAfter send the position
\* of the added element, appendChild sends -1 for an element that is added
\* as the last one of pureChildren.
C12_AddIndexIsPositionOrAppend ==
  \A i \in 1..Len(sent) :
    sent[i].action = "addElement" =>
      IF lastCall.op = "appendChild"
      THEN /\ sent[i].index = -1
           /\ PurePosition(sent[i].ref) = Len(pureChildren) - 1
      ELSE /\ sent[i].index >= 0
           /\ sent[i].index = PurePosition(sent[i].ref)

C12_Witness ==
  /\ lastCall.op \in {"insertBefore", "insertAfter"}
  /\ Len(pureChildren) >= 2
  /\ \E i \in 1..Len(sent) :
       sent[i].action = "addElement" /\ sent[i].index = PurePosition(sent[i].ref)

\* C13: every moveElement message carries as newIndex the position the
\* moved element occupies in pureChildren right after the call.
C13_MoveIndexIsPosition ==
  \A i \in 1..Len(sent) :
    sent[i].action = "moveElement" => sent[i].index = PurePosition(sent[i].ref)

(***************************************************************************)
(* Properties of the template compiler.  They speak of the trace of the    *)
(* last build.                                                             *)
(***************************************************************************)
EventsOf(kinds) == {i \in 1..Len(trace) : trace[i].ev \in kinds}

\* The compile calls that went past the abort check.
Dispatched == {i \in EventsOf({"compile"}) : trace[i].path # "abort"}

\* The first path that applies in the order slot, repeat, shown, custom
\* component, block, native element.
FirstApplicable(node, meta) ==
  CASE template[node].type = "slot" -> "slot"
    [] template[node].type # "slot" /\ template[node].repeat # "none" /\ meta.repeat = <<>>
         -> "repeat"
    [] template[node].type # "slot"
       /\ ~(template[node].repeat # "none" /\ meta.repeat = <<>>)
       /\ template[node].shown # "none" /\ ~meta.shown -> "shown"
    [] OTHER -> IF template[node].type = "comp" THEN "custom"
                ELSE IF template[node].type = "block" THEN "block"
                ELSE "native"

DispatchInFixedOrder ==
  \A i \in Dispatched : trace[i].path = FirstApplicable(trace[i].node, trace[i].meta)

\* The template node carries a repeat and a shown directive and is compiled
\* into an element, to the end.
RepeatWithShown ==
  /\ built
  /\ parentEl = ParentElement
  /\ template[TRoot].type # "slot"
  /\ template[TRoot].repeat # "none"
  /\ template[TRoot].shown # "none"
  /\ \A i \in 1..Len(trace) : trace[i].sig # -1
  /\ lastSignal # -1

\* The repeat block is created first, the node enters the repeat path once,
\* and shown is evaluated once per item, inside the repeat block.
ShownOncePerItem ==
  /\ Len(trace) >= 2
  /\ trace[1].ev = "compile" /\ trace[1].path = "repeat"
  /\ trace[2].ev = "createBlock"
  /\ Cardinality({i \in Dispatched : trace[i].node = TRoot /\ trace[i].path = "repeat"}) = 1
  /\ Cardinality({i \in EventsOf({"watch"}) : trace[i].type = "shown"})
       = Len(listOf(template[TRoot].repeat))
  /\ \A i \in Dispatched :
       (trace[i].node = TRoot /\ trace[i].path = "shown") => trace[i].dest.id = trace[2].block

\* C14: compile dispatches every template node to exactly one of the six
\* paths, the first that applies in the order slot, repeat, shown, custom
\* component, block, native element; for a node with both repeat and shown
\* the repeat block is created first and shown is evaluated once per item
\* inside it.
C14_DispatchOrder ==
  /\ DispatchInFixedOrder
  /\ RepeatWithShown => ShownOncePerItem

\* C15: once app.lastSignal is -1, no compile call creates an element or
\* calls attachTarget, and the compile calls return without an error.
C15_NothingCreatedAfterAbort ==
  /\ \A i \in EventsOf({"createElement", "createBody", "attachTarget"}) : trace[i].sig # -1
  /\ (lastSignal = -1 \/ \E i \in 1..Len(trace) : trace[i].sig = -1) => threw = NoError

\* A build that was aborted by the native host and entered compile again
\* afterwards.
C15_Witness ==
  /\ built
  /\ lastSignal = -1
  /\ EventsOf({"attachTarget"}) # {}
  /\ \E i \in EventsOf({"compile"}) : trace[i].path = "abort"

\* C16: every loop over child templates or over repeat items stops at the
\* first iteration after which lastSignal is -1: no later sibling template
\* is compiled and no later item gets a child context recorded in vms.
C16_LoopsStopAtAbort ==
  \A i \in EventsOf({"child", "vmsPush"}) : trace[i].sig # -1

\* The loops over child templates stop at the abort signal.
ChildLoopsStopAtAbort ==
  \A i \in EventsOf({"child"}) : trace[i].sig # -1

\* The build dispatched its template node to the repeat or the shown path
\* with the document element as the destination.
DirectiveOnDocument ==
  /\ built
  /\ trace # <<>>
  /\ trace[1].ev = "compile"
  /\ trace[1].path \in {"repeat", "shown"}
  /\ trace[1].dest = DocumentElement

\* C17: compiling a node with a repeat or shown directive whose destination
\* is the document root only logs a warning: no FragBlock is created, no
\* watcher is registered, no element is created or attached, and compile
\* returns normally.
C17_DirectiveOnDocumentOnlyWarns ==
  DirectiveOnDocument =>
    /\ EventsOf({"warn"}) = {2}
    /\ EventsOf({"createBlock", "watch", "vmsPush", "createElement", "createBody",
                 "attachTarget", "newVm", "child"}) = {}
    /\ EventsOf({"compile"}) = {1}
    /\ threw = NoError

C17_Witness ==
  /\ DirectiveOnDocument
  /\ template[TRoot].repeat # "none"
  /\ template[TRoot].shown # "none"
  /\ template[TRoot].children # <<>>
  /\ EventsOf({"warn"}) # {}

\* C18: compile completes without raising an error for a template node
\* from which any subset of the keys attr, children, events, repeat, shown,
\* style, id, append is absent, on every dispatch path: no read of a
\* property of an absent key raises a TypeError.
C18_ToleratesAbsentKeys == threw # "TypeError"

\* Without a slot and without children of a custom component that lack
\* attr, and without a falsy item under repeat and shown, no error is raised.
NoErrorWithAttr ==
  (/\ template[CSlot].hasAttr
   /\ (template[TRoot].type = "comp" => \A i \in 1..Len(template[TRoot].children) :
                                         template[template[TRoot].children[i]].hasAttr)
   /\ ~(template[TRoot].repeat = "a0" /\ template[TRoot].shown = "true"))
  => threw = NoError

\* The Vm handed to build is marked ready after the last compile call made
\* for its template, the templates of its components included.
ReadyAfterLastCompile ==
  \A i \in EventsOf({"ready"}) :
    trace[i].vm = RootVm.id => \A j \in EventsOf({"compile"}) : j < i

\* C26: build(vm) marks the Vm ready only after every node of its template
\* has been compiled; when the compilation was cut short by the abort
\* signal, the Vm is not marked ready.
C26_ReadyOnlyAfterFullCompile ==
  /\ ReadyAfterLastCompile
  /\ \A i \in EventsOf({"ready"}) : trace[i].sig # -1

\* Without an abort signal every Vm that was built is marked ready, once.
ReadyOnceWithoutAbort ==
  (built /\ threw = NoError /\ lastSignal # -1) =>
    /\ Cardinality({i \in EventsOf({"ready"}) : trace[i].vm = RootVm.id}) = 1
    /\ Cardinality(EventsOf({"ready"})) = Cardinality(EventsOf({"newVm"})) + 1

\* C27: whenever a compileNativeComponent call that set
\* global.treeModeParentNode returns, the marker is cleared again, also
\* when lastSignal became -1 while its children were being compiled.
C27_MarkerClearedOnReturn ==
  (built /\ threw = NoError) => ~treeModeParentNode

\* The marker is cleared by every build that was not aborted.
MarkerClearedWithoutAbort ==
  (built /\ threw = NoError /\ lastSignal # -1) => ~treeModeParentNode

\* The attachTarget calls made for the element created at trace entry c.
AttachesOf(c) == {a \in EventsOf({"attachTarget"}) : trace[a].el = trace[c].el}

\* The compile calls whose destination is the element created at entry c.
ChildCompilesOf(c) ==
  {k \in EventsOf({"compile"}) : trace[k].dest = [kind |-> "element", id |-> trace[c].el]}

\* The element created at entry c took the tree-mode marker: its template
\* asks for tree mode and the marker was not set.
OwnsMarker(c) == template[trace[c].node].append = "tree" /\ ~trace[c].marker

\* The element created at entry c is attached once, to the destination its
\* compile call was given: behind its children and with the marker set in
\* between and cleared at the attachment when it owns the marker, ahead of
\* its children and with the marker left as it was otherwise.
AttachedInModeOrder(c) ==
  /\ Cardinality(AttachesOf(c)) = 1
  /\ \A a \in AttachesOf(c) :
       /\ trace[a].dest = trace[c - 1].dest
       /\ IF OwnsMarker(c)
          THEN /\ \A k \in ChildCompilesOf(c) : c < k /\ k < a
               /\ \A k \in (c + 1)..(a - 1) : trace[k].marker
               /\ ~trace[a].marker
          ELSE /\ a = c + 1
               /\ \A k \in ChildCompilesOf(c) : a < k
               /\ trace[a].marker = trace[c].marker

\* C28: with no abort, every element created by compileNativeComponent is
\* attached to its destination exactly once: after all of its children
\* have been compiled when it owns the tree-mode marker, before they are
\* compiled otherwise; a tree-mode element compiled while the marker is
\* already set is attached in the second way and leaves the marker set for
\* the outer element.
C28_AttachedOnceInModeOrder ==
  (built /\ threw = NoError /\ lastSignal # -1) =>
    \A c \in EventsOf({"createElement", "createBody"}) : AttachedInModeOrder(c)

\* A tree-mode element that holds a tree-mode element with a child of its
\* own, built without abort.
C28_Witness ==
  /\ built /\ threw = NoError /\ lastSignal # -1
  /\ \E c, d \in EventsOf({"createElement", "createBody"}) :
       /\ c < d
       /\ OwnsMarker(c)
       /\ template[trace[d].node].append = "tree" /\ trace[d].marker
       /\ ChildCompilesOf(d) # {}
       /\ \A a \in AttachesOf(c) : a > d + 1

\* The compile calls that took the slot path.
SlotCalls == {i \in Dispatched : trace[i].path = "slot"}

\* The compile call of the custom component whose Vm owns the slot compiled
\* at entry i: the last one before i.
ComponentCallOf(i) ==
  CHOOSE j \in Dispatched :
    /\ j < i /\ trace[j].path = "custom"
    /\ \A k \in Dispatched : (k < i /\ trace[k].path = "custom") => k <= j

\* The compile calls whose destination is the block created at entry b.
CompilesInto(b) ==
  {k \in EventsOf({"compile"}) :
     trace[k].dest.kind = "block" /\ trace[k].dest.id = trace[b].block}

\* The slot compiled at entry i belongs to a Vm with slot context: a block
\* is created, and the templates the caller registered under the slot's
\* name are compiled into it against the projecting Vm, all of them when
\* the build is not aborted.
SlotProjectsContent(i) ==
  LET c == ComponentCallOf(i)
      content == namedContentOf(template[trace[c].node].children, slotNameOf(trace[i].node))
  IN /\ i < Len(trace) /\ trace[i + 1].ev = "createBlock"
     /\ content # <<>> =>
          /\ \A k \in CompilesInto(i + 1) :
               /\ trace[k].node \in Range(content)
               /\ trace[k].vm = trace[c].vm /\ trace[k].items = trace[c].items
          /\ lastSignal # -1 => {trace[k].node : k \in CompilesInto(i + 1)} = Range(content)

\* The slot compiled at entry i belongs to a Vm without slot context: the
\* call returns at once.
SlotIsNoOp(i) ==
  i < Len(trace) => trace[i + 1].ev \notin {"createBlock", "createElement", "createBody"}

\* C29: compiling a slot node in a Vm without slotContext creates no block
\* and no element; in a Vm with slotContext the caller-supplied templates
\* registered under the slot's name attribute ("default" when the name is
\* absent) are compiled against slotContext.parentVm, never against the Vm
\* that owns the slot.
C29_SlotProjectsAgainstParentVm ==
  \A i \in SlotCalls :
    IF trace[i].vm = RootVm.id THEN SlotIsNoOp(i) ELSE SlotProjectsContent(i)

\* The same for a slot node that has an attr object, in a build that does
\* not exhaust the call stack.
SlotWithAttrProjectsAgainstParentVm ==
  \A i \in SlotCalls :
    (template[trace[i].node].hasAttr /\ threw # "RangeError") =>
      IF trace[i].vm = RootVm.id THEN SlotIsNoOp(i) ELSE SlotProjectsContent(i)

\* A named slot received the one child that names it, the other child
\* staying out.
NamedSlotFilled ==
  /\ built /\ threw = NoError /\ lastSignal # -1
  /\ template[CSlot].name = "x"
  /\ \E i \in SlotCalls :
       /\ trace[i].vm # RootVm.id
       /\ {trace[k].node : k \in CompilesInto(i + 1)} = {TChild}
       /\ Len(template[TRoot].children) = 2

\* No compile call made for an item of the list takes the repeat path, and
\* the build does not exhaust the call stack.
RepeatNotReentered ==
  /\ \A i \in Dispatched : trace[i].path = "repeat" => trace[i].items = <<>>
  /\ threw # "RangeError"

\* C30: during the per-item compilation of a repeat node, compile never
\* enters compileRepeat again for that node, whatever the item (falsy items
\* included) and also when the node carries a shown directive; compiling a
\* repeat node over a finite list terminates.
C30_RepeatNotReentered == RepeatNotReentered

\* The same when no falsy item meets a shown directive that holds.
RepeatNotReenteredForTruthyItems ==
  ~(template[TRoot].repeat = "a0" /\ template[TRoot].shown = "true") => RepeatNotReentered


(***************************************************************************)
(* Properties of the setters.  They speak of the last setter call.         *)
(***************************************************************************)
\* The table the last setter call writes to.
TableOf(op) ==
  CASE op = "setAttr" -> attr
    [] op = "setStyle" -> style
    [] op = "setIdStyle" -> idStyle
    [] op = "setTagStyle" -> tagStyle
    [] OTHER -> classStyle

\* The last call was a silent write of a value other than the stored one.
SilentChanged ==
  /\ setCall.op \in {"setAttr", "setStyle", "setIdStyle", "setTagStyle"}
  /\ setCall.silent
  /\ setCall.value # setCall.old

\* A layer of higher precedence holds a truthy value for the key the last
\* call wrote: the inline style for setIdStyle, the inline, id or class
\* style for setTagStyle.
HigherLayerHolds ==
  \/ setCall.op = "setIdStyle" /\ Truthy(style[setCall.key])
  \/ /\ setCall.op = "setTagStyle"
     /\ \/ Truthy(style[setCall.key])
        \/ Truthy(idStyle[setCall.key])
        \/ Truthy(classStyle[setCall.key])

C20_SetAttrSkipsSilentOrSame ==
  (setCall.op = "setAttr" /\ (setCall.silent \/ setCall.value = setCall.old)) =>
    /\ attr[setCall.key] = setCall.old
    /\ updates = <<>>

\* C20 as the code has it: setAttr skips the write only when silent is true
\* and the value is the stored one; any other call stores the value, and
\* sends updateAttrs with the one key exactly when silent is false.
C20_SetAttrSkipsSilentAndSame ==
  setCall.op = "setAttr" =>
    IF setCall.silent /\ setCall.value = setCall.old
    THEN attr[setCall.key] = setCall.old /\ updates = <<>>
    ELSE /\ attr[setCall.key] = setCall.value
         /\ updates = IF setCall.silent THEN <<>>
                      ELSE <<UpdateMsg("updateAttrs", OneKey(setCall.key, setCall.value))>>

C20_Witness ==
  /\ setCall.op = "setAttr"
  /\ setCall.silent
  /\ setCall.old # Absent
  /\ setCall.value # setCall.old
  /\ attr[setCall.key] = setCall.value
  /\ updates = <<>>

\* The message a call that sends only the changed key hands over.
OneKeyMsg ==
  UpdateMsg(IF setCall.op = "setAttr" THEN "updateAttrs" ELSE "updateStyle",
            OneKey(setCall.key, setCall.value))

\* C21: a non-silent setAttr, setStyle, setIdStyle or setTagStyle sends one
\* updateAttrs / updateStyle message whose payload holds exactly the key
\* that was set, with its new value.
C21_NonSilentSendsChangedKey ==
  (setCall.op \in {"setAttr", "setStyle", "setIdStyle", "setTagStyle"} /\ ~setCall.silent)
    => updates = <<OneKeyMsg>>

\* What the code does send: setStyle hands over the whole resolved cascade,
\* as setClassStyle does; setIdStyle and setTagStyle send the changed key
\* unless a layer of higher precedence holds a truthy value, and then
\* nothing; setAttr sends the changed key.
NonSilentSendsAsCoded ==
  (setCall.op # "none" /\ ~setCall.silent) =>
    CASE setCall.op \in {"setStyle", "setClassStyle"} ->
           /\ Len(updates) = 1
           /\ updates[1].action = "updateStyle"
           /\ updates[1].payload \in toStyleOutcomes(ElementTables)
      [] setCall.op \in {"setIdStyle", "setTagStyle"} ->
           updates = IF HigherLayerHolds THEN <<>> ELSE <<OneKeyMsg>>
      [] OTHER -> updates = <<OneKeyMsg>>

(***************************************************************************)
(* Properties of the destroy hook.  They speak of the last destroy() call  *)
(* on an element made by compileNativeComponent.                           *)
(***************************************************************************)
\* The call tore down every watcher the element held, once, and left the
\* element's list empty.
WatchersTornDownOnce ==
  /\ \A i \in 1..Len(hookCall.watchers) : teardowns[hookCall.watchers[i]] = 1
  /\ elements[hookCall.el].watchers = <<>>

\* C25: destroying any Element produced by compileNativeComponent, the
\* body element created for the document element included, tears down
\* every watcher of the element's watchers list exactly once and leaves the
\* list empty.
C25_DestroyTearsDownWatchers ==
  (hookCall.op = "destroy" /\ ~hookCall.threw) => WatchersTornDownOnce

\* The same for the elements that are not the body.
DestroyTearsDownWatchersButBody ==
  (hookCall.op = "destroy" /\ ~hookCall.threw /\ ~elements[hookCall.el].body)
    => WatchersTornDownOnce

\* No watcher is torn down twice, whatever is destroyed again.
NoWatcherTornDownTwice == \A w \in 1..Len(teardowns) : teardowns[w] <= 1

(***************************************************************************)
(* Properties of the repeat directive.  They speak of the last compile or  *)
(* reconciliation: rCall holds the block's lists before it, the block's    *)
(* variables hold them after it, `sent` the messages it sent.              *)
(***************************************************************************)
KeySeq(list, trackBy) == [i \in 1..Len(list) |-> RepeatKey(list[i], i - 1, trackBy)]
OldKeys == KeySeq(rCall.oldData, rCall.trackBy)
NewKeys == KeySeq(fbData, rCall.trackBy)
Distinct(seq) == \A i, j \in 1..Len(seq) : seq[i] = seq[j] => i = j
CountSent(action) == Cardinality({m \in 1..Len(sent) : sent[m].action = action})

\* The new list holds the keys of the old list, each once, in another order.
Reordered ==
  /\ rCall.op = "reconcile"
  /\ Distinct(OldKeys) /\ Distinct(NewKeys)
  /\ Range(OldKeys) = Range(NewKeys)
  /\ OldKeys # NewKeys

\* Every key has kept its target and its child context, and nothing but
\* moveElement has been sent.
KeptAndOnlyMoved ==
  /\ Len(fbChildren) = Len(fbData) /\ Len(fbVms) = Len(fbData)
  /\ \A i \in 1..Len(OldKeys), j \in 1..Len(NewKeys) :
       OldKeys[i] = NewKeys[j] =>
         fbChildren[j] = rCall.oldChildren[i] /\ fbVms[j] = rCall.oldVms[i]
  /\ \A m \in 1..Len(sent) : sent[m].action = "moveElement"

\* C6: reconciling against a list with the same pairwise distinct track-by
\* keys in a different order keeps every key's target element and child
\* Vm, and sends moveElement messages only.
C6_ReorderKeepsTargets == Reordered => KeptAndOnlyMoved

\* C6, amended: the same for keys that are not the empty string.
C6_ReorderKeepsKeyedTargets ==
  (Reordered /\ "" \notin Range(NewKeys)) => KeptAndOnlyMoved

\* Three keys reordered, with at least one target moved.
C6_Witness ==
  /\ Reordered /\ "" \notin Range(NewKeys)
  /\ Len(fbData) = 3
  /\ CountSent("moveElement") >= 1

\* Removals and compilations counted by the difference of the key sets;
\* the target of a key of both sets is still a target of the block.
KeySetCounts ==
  LET Kold == Range(OldKeys)
      Knew == Range(NewKeys)
  IN /\ rCall.removed = Cardinality(Kold \ Knew)
     /\ CountSent("removeElement") = Cardinality(Kold \ Knew)
     /\ rCall.compiled = Cardinality(Knew \ Kold)
     /\ CountSent("addElement") = Cardinality(Knew \ Kold)
     /\ \A i \in 1..Len(OldKeys) :
          OldKeys[i] \in Knew =>
            rCall.oldChildren[i] \in Range(fbChildren) \ destroyed

\* C7: a reconciliation from key set K_old to key set K_new removes exactly
\* |K_old \ K_new| old targets and compiles exactly |K_new \ K_old| new
\* items; an item whose key is in both sets is neither removed nor created.
C7_KeySetDifferenceCounts == rCall.op = "reconcile" => KeySetCounts

\* C7, amended: the same when the keys of the old list and the keys of the
\* new list are pairwise distinct and none is the empty string.
C7_DistinctKeySetDifferenceCounts ==
  (/\ rCall.op = "reconcile"
   /\ Distinct(OldKeys) /\ Distinct(NewKeys)
   /\ "" \notin Range(OldKeys) \cup Range(NewKeys)) => KeySetCounts

\* One key removed, one kept and one added, by track-by keys.
C7_Witness ==
  /\ rCall.op = "reconcile" /\ rCall.trackBy
  /\ Distinct(OldKeys) /\ Distinct(NewKeys)
  /\ "" \notin Range(OldKeys) \cup Range(NewKeys)
  /\ rCall.removed = 1 /\ rCall.compiled = 1
  /\ Range(OldKeys) \cap Range(NewKeys) # {}

\* The keys of the items that are reused: in both lists and in trackMap.
ReusedKeys == (Range(OldKeys) \cap Range(NewKeys)) \ {""}
Reused(k) == k \in ReusedKeys
ReusedInOrder ==
  /\ rCall.op = "reconcile"
  /\ SelectSeq(OldKeys, Reused) = SelectSeq(NewKeys, Reused)

NoMoveWhenInOrder ==
  /\ ReusedInOrder => (rCall.moved = 0 /\ CountSent("moveElement") = 0)
  /\ (rCall.op = "reconcile" /\ OldKeys = NewKeys) => sent = <<>>

\* C8: when the reused items are in the same relative order in the old and
\* in the new list, nothing is moved; a list with identical keys in
\* identical order sends no addElement, moveElement or removeElement.
C8_NoMoveWhenOrderKept == NoMoveWhenInOrder

\* The same for lists whose keys are pairwise distinct and not empty.
NoMoveWhenInOrderDistinct ==
  (/\ Distinct(OldKeys) /\ Distinct(NewKeys)
   /\ "" \notin Range(OldKeys) \cup Range(NewKeys)) => NoMoveWhenInOrder

\* The contexts and the messages of an initial compile, the first index
\* being `first`.
CompiledInOrder(first) ==
  /\ Len(fbVms) = Len(fbData) /\ Distinct(fbVms)
  /\ \A i \in 1..Len(fbData) :
       vmKey[fbVms[i]] = i - 1 /\ vmValue[fbVms[i]] = fbData[i]
  /\ sent = [i \in 1..Len(fbData) |-> AddElementMsg(fbChildren[i], first + i - 1)]

\* C9: the initial compile of a repeat node over n items creates n child
\* contexts with key variable i and value variable the i-th item, and
\* sends n addElement messages with indices 0, 1, ..., n-1 in that order.
C9_InitialCompileIndices == rCall.op = "compile" => CompiledInOrder(0)

\* C9, amended: the indices are p, p+1, ..., p+n-1, p being the number of
\* element children the parent has when the repeat node is compiled.
C9_InitialCompileIndicesFromPure == rCall.op = "compile" => CompiledInOrder(rCall.pure)

\* Three items compiled behind an element the parent already has.
C9_Witness ==
  /\ rCall.op = "compile" /\ rCall.pure = 1
  /\ Len(fbData) = 3 /\ Len(sent) = 3

\* The new item at index i has the key of another item of the new list.
Collides(i) == \E j \in 1..Len(NewKeys) : j # i /\ NewKeys[j] = NewKeys[i]

\* The target at index i was compiled by this reconciliation.
CompiledNew(i) ==
  /\ i <= Len(fbChildren)
  /\ fbChildren[i] \notin Range(rCall.oldChildren)
  /\ i <= Len(fbVms)
  /\ fbVms[i] \notin Range(rCall.oldVms)

\* C22: in a reconciliation, a new item whose key collides with the key of
\* another item of the new list, or whose key is the empty string, is
\* compiled as a new child Vm and element and reuses no previous target;
\* no target appears more than once in fragBlock.children.
C22_CollidingKeysCompiledNew ==
  rCall.op = "reconcile" =>
    /\ \A i \in 1..Len(fbData) : (Collides(i) \/ NewKeys[i] = "") => CompiledNew(i)
    /\ Distinct(fbChildren)

\* The part the code keeps: an item whose key is the empty string is
\* compiled anew, and without colliding keys no target appears twice.
EmptyKeysCompiledNew ==
  rCall.op = "reconcile" =>
    /\ \A i \in 1..Len(fbData) : NewKeys[i] = "" => CompiledNew(i)
    /\ Distinct(NewKeys) => Distinct(fbChildren)

\* Every target of the previous materialization is a target of the block or
\* is out of the parent's child list.
OldTargetsReusedOrRemoved ==
  \A i \in 1..Len(rCall.oldChildren) :
    \/ rCall.oldChildren[i] \in Range(fbChildren)
    \/ rCall.oldChildren[i] \notin Range(children)

\* C23: after every reconciliation each target of the previous
\* materialization is either reused (it is in the new fragBlock.children)
\* or has been removed from the tree; none stays in the tree without being
\* in fragBlock.children, duplicate keys included.
C23_OldTargetsReusedOrRemoved == rCall.op = "reconcile" => OldTargetsReusedOrRemoved

\* The same for an old list whose keys are pairwise distinct.
DistinctOldTargetsReusedOrRemoved ==
  (rCall.op = "reconcile" /\ Distinct(OldKeys)) => OldTargetsReusedOrRemoved

\* vms, children and data have one entry per item: the i-th child context
\* is bound to the i-th item with key variable i, and the i-th target is
\* the element compiled against that context.
ParallelArraysAligned ==
  /\ Len(fbVms) = Len(fbData) /\ Len(fbChildren) = Len(fbData)
  /\ \A i \in 1..Len(fbData) :
       /\ vmKey[fbVms[i]] = i - 1
       /\ vmValue[fbVms[i]] = fbData[i]
       /\ fbChildren[i] = fbVms[i]

\* C24: after the initial compile of a repeat block and after every
\* reconciliation, fragBlock.vms, fragBlock.children and fragBlock.data
\* have the same length and are index-aligned.
C24_ParallelArraysAligned == rCall.op # "none" => ParallelArraysAligned

\* The same after the initial compile, and after a reconciliation whose new
\* list has pairwise distinct keys.
DistinctParallelArraysAligned ==
  (rCall.op = "compile" \/ (rCall.op = "reconcile" /\ Distinct(NewKeys)))
    => ParallelArraysAligned

(***************************************************************************)
(* Properties of reference nodes and of re-attaching a preserved node.     *)
(***************************************************************************)
\* The step is a call of op whose reference node is not a child of the parent.
NonChildRefCall(op) == lastCall'.op = op /\ lastCall'.ref \notin Range(children)

\* The step leaves both child lists and every sibling pointer as they were
\* and sends nothing.
ListsAndSiblingsUnchanged ==
  /\ UNCHANGED <<children, pureChildren, previousSibling, nextSibling>>
  /\ sent' = <<>>

\* C38: insertBefore(node, ref) and insertAfter(node, ref) called with a
\* reference node that is not a child of this element leave children,
\* pureChildren and all sibling pointers unchanged and send no message.
C38_NonChildRefIsNoOp ==
  [][(NonChildRefCall("insertBefore") \/ NonChildRefCall("insertAfter"))
       => ListsAndSiblingsUnchanged]_vars

\* The part of C38 the code keeps: insertBefore looks the reference node up
\* in children and returns when it is absent.
InsertBeforeNonChildRefIsNoOp ==
  [][NonChildRefCall("insertBefore") => ListsAndSiblingsUnchanged]_vars

\* The last call was removeChild(node, true) on a node of this parent.
PreservedRemoved ==
  /\ lastCall.op = "removeChild"
  /\ lastCall.preserved
  /\ parentNode[lastCall.node] = "this"

\* The step is appendChild(node) or insertBefore(node, x), x a child, on the
\* node just removed.
ReattachCall ==
  /\ lastCall'.node = lastCall.node
  /\ \/ lastCall'.op = "appendChild"
     \/ /\ lastCall'.op = "insertBefore"
        /\ lastCall'.ref \in Range(children)

\* After the step the node is a child again and, when it is an element, an
\* element child announced by an addElement message.
Reattached(node) ==
  /\ node \in Range(children')
  /\ isElement(node) =>
       /\ node \in Range(pureChildren')
       /\ \E i \in 1..Len(sent') :
            sent'[i].action = "addElement" /\ sent'[i].ref = node

\* C39: a node removed with removeChild(node, true) is no longer in children
\* or pureChildren, and a following appendChild(node) or insertBefore(node, x)
\* on the same parent puts it back into children (and pureChildren if it is
\* an element) and sends addElement.
C39_PreservedNodeReattaches ==
  /\ [](PreservedRemoved =>
          /\ lastCall.node \notin Range(children)
          /\ lastCall.node \notin Range(pureChildren))
  /\ [][(PreservedRemoved /\ ReattachCall) => Reattached(lastCall'.node)]_vars

\* The part of C39 the code keeps: after removeChild(node, true) the node is
\* in neither list.
PreservedNodeLeavesLists ==
  PreservedRemoved =>
    /\ lastCall.node \notin Range(children)
    /\ lastCall.node \notin Range(pureChildren)

\* What the code does instead: removeChild leaves node.parentNode set, so the
\* following appendChild or insertBefore takes the move branch, finds the node
\* in neither list and changes nothing.
PreservedNodeStaysOut ==
  [][(PreservedRemoved /\ ReattachCall) =>
       /\ UNCHANGED <<children, pureChildren>>
       /\ sent' = <<>>]_vars

(***************************************************************************)
(* Properties of the style layers under any order of writes.               *)
(***************************************************************************)
\* The tables that hold, for every (layer, key), the value written last.
WrittenTables ==
  [ElementTables EXCEPT !.style = written.style, !.idStyle = written.idStyle,
                        !.classStyle = written.classStyle, !.tagStyle = written.tagStyle]

\* C40: the resolved style toStyle() depends only on the last value written
\* to each (layer, key) pair by setTagStyle, setClassStyle, setIdStyle and
\* setStyle, not on the order in which the layers were written, also after a
\* higher layer's value is cleared.
C40_ResolvedFromLastWrites ==
  toStyleOutcomes(ElementTables) = toStyleOutcomes(WrittenTables)

\* setIdStyle and setTagStyle were never called while a higher layer held a
\* value for the key: every layer holds what was written to it last.
NoWriteDropped == WrittenTables = ElementTables

\* The part of C40 the code keeps: the inline and the class layer always hold
\* the last value written to them.
InlineAndClassHoldLastWrite ==
  /\ style = written.style
  /\ classStyle = written.classStyle

\* What the code does instead: a write to the id or tag layer is dropped
\* while a higher layer holds a value, and stays dropped after that value is
\* cleared.
DroppedWriteOutlivesClear ==
  /\ setCall.op = "setStyle"
  /\ ~Truthy(style[setCall.key])
  /\ Truthy(written.idStyle[setCall.key])
  /\ idStyle[setCall.key] = Absent

(***************************************************************************)
(* Properties of config.recorded and of writes made while a handler runs.  *)
(***************************************************************************)
\* A flush callback for block b is filed in the differ.
Pending(b) == DifferKey(b) \in differMap

\* The handler of block b changed the block's watched value during the last
\* flush, and the watcher has not fired for the block since.
ReenteredLast(b) ==
  /\ lastFlush.done
  /\ lastFlush.reentry.ref = b
  /\ wave[b] = <<>>

\* C32: a change of the watched value that is recorded while the handler of
\* the same block is executing inside a flush is not lost: the handler is
\* invoked again, in a later flush, with that value.  The call of a later
\* flush needs the block's callback pending with that value recorded.
C32_ReentrantChangeNotLost ==
  \A b \in Blocks :
    ReenteredLast(b) => Pending(b) /\ cLatestValue[b] = lastFlush.reentry.value

\* What the code does instead: the watcher callback that runs inside the
\* handler finds config.recorded set and files nothing, and the two
\* statements after handler(latestValue) then erase what it recorded.
ReentrantChangeErased ==
  \A b \in Blocks :
    ReenteredLast(b) => ~Pending(b) /\ ~cRecorded[b] /\ cLatestValue[b] = Undefined

\* config.recorded of block b is set exactly while its callback is pending,
\* and a change since the last flush has its callback pending.
RecordedWhilePending(b) ==
  /\ cRecorded[b] <=> Pending(b)
  /\ wave[b] # <<>> => Pending(b)

\* C33: config.recorded is true exactly while a flush callback for the block
\* is pending in the differ; in every other state (no differ on the app, or
\* after a handler invocation that ended with an error) a new change of the
\* watched value still schedules the handler.
C33_RecordedExactlyWhilePending == \A b \in Blocks : RecordedWhilePending(b)

\* The part of C33 the code keeps: with a differ, and until a handler raises
\* an error, recorded is set exactly while the callback is pending.
RecordedWhilePendingUntilError ==
  (hasDiffer /\ ~handlerFailed) => \A b \in Blocks : RecordedWhilePending(b)

\* What the code does instead after an error: recorded stays set with no
\* callback pending, and a new change files nothing.
RecordedStuckAfterError ==
  /\ hasDiffer
  /\ handlerFailed
  /\ \E b \in Blocks : cRecorded[b] /\ wave[b] # <<>> /\ ~Pending(b)

\* Without a differ a change sets recorded and files nothing.
NothingFiledWithoutDiffer ==
  ~hasDiffer => \A b \in Blocks : ~Pending(b) /\ (wave[b] # <<>> => cRecorded[b])

(***************************************************************************)
(* Properties of a repeat block whose list becomes empty or absent.        *)
(***************************************************************************)
\* The block holds nothing and no target it held before is in the tree.
BlockCleared ==
  /\ fbChildren = <<>>
  /\ fbVms = <<>>
  /\ fbData = <<>>
  /\ \A i \in 1..Len(rCall.oldChildren) : rCall.oldChildren[i] \notin Range(children)

\* The last flush ran the handler with an empty list.
ReconciledToEmpty == rCall.op = "reconcile" /\ fbData = <<>>

\* C34: when the value of a repeat getter changes to an empty list or to
\* null/undefined, the flush removes every previously materialized item of
\* the block from the tree and leaves fragBlock.children, fragBlock.vms and
\* fragBlock.data empty.
C34_EmptyOrNullClearsBlock ==
  (ReconciledToEmpty \/ rCall.op = "reconcileNoData") => BlockCleared

\* The part of C34 the code keeps: an empty list clears the block.
EmptyListClearsBlock == ReconciledToEmpty => BlockCleared

\* What the code does instead for null or undefined: the block and the tree
\* stay as they were.
NoDataKeepsBlock ==
  rCall.op = "reconcileNoData" =>
    /\ fbChildren = rCall.oldChildren
    /\ fbVms = rCall.oldVms
    /\ fbData = rCall.oldData
    /\ \A i \in 1..Len(fbChildren) : fbChildren[i] \in Range(children)

\* An empty list has cleared a block that held items.
EmptyListClearedItems == ReconciledToEmpty /\ rCall.oldChildren # <<>> /\ BlockCleared

(***************************************************************************)
(* Properties of the event operations.                                     *)
(***************************************************************************)
\* The step is an addEvent or removeEvent call: at most one message, named
\* after the call, that differs from the last one sent for the element and
\* type and is an addEvent when none was sent before.
MessagesAlternate ==
  LET el == evCall'.el
      type == evCall'.type
  IN /\ Len(evSent') <= 1
     /\ \A i \in 1..Len(evSent') :
          /\ evSent'[i] = EventMsg(evCall'.op, el, type)
          /\ evSent'[i].action # lastMsg[el][type]
          /\ lastMsg[el][type] = "none" => evSent'[i].action = "addEvent"

\* The step adds a registered type or removes an unregistered one: nothing
\* is sent and the registered handler stays.
RedundantCallIsSilent ==
  LET el == evCall'.el
      type == evCall'.type
      registered == event[el][type] # Absent
  IN /\ (evCall'.op = "addEvent" /\ registered) =>
          evSent' = <<>> /\ event'[el][type] = event[el][type]
     /\ (evCall'.op = "removeEvent" /\ ~registered) =>
          evSent' = <<>> /\ event'[el][type] = Absent

\* C35: for any sequence of addEvent and removeEvent calls on a
\* document-attached element, the addEvent and removeEvent messages sent for
\* one event type strictly alternate, starting with addEvent: adding an
\* already registered type sends nothing and keeps the first handler,
\* removing an unregistered type sends nothing.
C35_AddRemoveAlternate ==
  [][evCall'.op \in {"addEvent", "removeEvent"} =>
       MessagesAlternate /\ RedundantCallIsSilent]_vars

\* addEvent was called with another handler for a type that was registered,
\* removed and registered again: the handler registered last stays, nothing
\* was sent.
C35_Witness ==
  /\ evCall.op = "addEvent"
  /\ evSent = <<>>
  /\ event[evCall.el][evCall.type] \notin {Absent, evCall.handler}
  /\ lastMsg[evCall.el][evCall.type] = "addEvent"
  /\ \E type \in EventTypes : lastMsg[evCall.el][type] = "removeEvent"

\* C36: fireEvent invokes an ancestor's handler only if isBubble is set, the
\* type is one of the listed bubble event types, and no handler invoked
\* earlier on the path from the target called event.stopPropagation(); once
\* a handler calls stopPropagation no handler of any ancestor runs, and the
\* value returned to the caller is the result of the target element's own
\* handler (null when no handler of the target ran).
C36_BubbleOnlyUnstopped ==
  evCall.op = "fireEvent" =>
    LET target == evCall.el
        type == evCall.type
        ran == Range(evCall.invoked)
    IN /\ \A a \in ran :
            /\ a >= target
            /\ a # target =>
                 /\ evCall.isBubble
                 /\ type \in BUBBLE_EVENTS
                 /\ \A b \in target..(a - 1) :
                      b \in ran => ~stopsPropagation(event[b][type])
       /\ ~evCall.threw =>
            evCall.result = IF target \in ran
                            THEN HandlerResult(event[target][type], target)
                            ELSE NoResult

\* The target's handler ran, the parent's handler ran and stopped the event,
\* and the grandparent's handler did not run; the caller got the target's
\* result.
C36_Witness ==
  /\ evCall.op = "fireEvent"
  /\ evCall.el = 1
  /\ evCall.invoked = <<1, 2>>
  /\ stopsPropagation(event[2][evCall.type])
  /\ event[3][evCall.type] # Absent
  /\ evCall.result = HandlerResult(event[1][evCall.type], 1)

\* A fireEvent without an event object that bubbles raises a TypeError at
\* `event.currentTarget = parentNode` and returns nothing.
BubbleWithoutEventThrows ==
  (evCall.op = "fireEvent" /\ evCall.threw) =>
    /\ ~evCall.hasEvent
    /\ evCall.isBubble
    /\ evCall.type \in BUBBLE_EVENTS
    /\ evCall.invoked = <<>>

(***************************************************************************)
(* Properties of the shown block.                                          *)
(***************************************************************************)
\* The last step was the initial compile or a flush of the block.
AfterCompileOrFlush == shCall.op \in {"bindShown", "flush"}

\* The content stands in the tree exactly when display is set.
ContentIffDisplay == (contentCount >= 1) <=> display

\* A flush whose value has the truthiness display had compiles and removes
\* nothing.
SameTruthinessIsNoOp ==
  (shCall.op = "flush" /\ Truthy(shCall.value) = shCall.oldDisplay) =>
    shCall.compiles = 0 /\ shCall.removals = 0

\* C31: after the initial compile and after every flush of a shown block
\* (with no abort), fragBlock.display equals the truthiness of the latest
\* shown value and the block's content is materialized in the tree if and
\* only if fragBlock.display is true; a flush whose latest value has the same
\* truthiness as fragBlock.display performs no compile and no removal.
C31_DisplayFollowsShown ==
  /\ AfterCompileOrFlush => display = Truthy(shownValue) /\ ContentIffDisplay
  /\ SameTruthinessIsNoOp

\* The part of C31 the code keeps: display is the truthiness of the value
\* the handler was called with, the content follows display, once, and a
\* flush of the same truthiness does nothing; display follows the getter
\* unless its value changed while the handler ran.
DisplayFollowsHandledValue ==
  /\ AfterCompileOrFlush =>
       /\ display = Truthy(shCall.value)
       /\ contentCount = (IF display THEN 1 ELSE 0)
       /\ ~shCall.reentered => display = Truthy(shownValue)
  /\ SameTruthinessIsNoOp

\* What the code does instead: the getter turned falsy while the handler
\* compiled the content; nothing is pending and the content stays.
StaleDisplayAfterReentry ==
  /\ shCall.op = "flush"
  /\ shCall.reentered
  /\ display
  /\ ~Truthy(shownValue)
  /\ contentCount = 1
  /\ differMap = {}

(***************************************************************************)
(* Properties of the data of component instances.                          *)
(***************************************************************************)
\* The object that was registered as the component's data.
RegisteredObject ==
  IF component.initObjectData # NoObject THEN component.initObjectData ELSE component.data

\* No instance shares an object with the registered data or with another
\* instance, and the registered data is as it was registered.
InstancesShareNothing ==
  /\ \A i \in 1..Len(instances) :
       /\ Reach(objects, instances[i].data) \cap Reach(objects, RegisteredObject) = {}
       /\ \A j \in 1..Len(instances) :
            i # j => Reach(objects, instances[i].data) \cap Reach(objects, instances[j].data) = {}
  /\ DeepValue(objects, RegisteredObject) = component.registered

\* The value JSON.parse(JSON.stringify(d)) of a registered value d.
JsonOf(deep) ==
  <<jsonValue(deep[1]), IF deep[2] = <<>> THEN <<>> ELSE <<jsonValue(deep[2][1])>>>>

\* C37 as stated: two instances of the same custom component never share a
\* data object: each time a template node resolves to a registered component
\* whose data is an object, the component's data is a fresh deep copy of the
\* originally registered data, so writes made to one instance's data are not
\* visible in the initial data of any instance created later.
C37_InstancesGetDeepCopy ==
  /\ InstancesShareNothing
  /\ \A i \in 1..Len(instances) : instances[i].initial = component.registered

\* C37, amended: every instance starts from a fresh copy of the registered
\* data made by a JSON round trip, which shares no object with the registered
\* data or with another instance; writes made by one instance do not show in
\* the initial data of an instance created later.
C37_InstancesGetJsonCopy ==
  /\ InstancesShareNothing
  /\ \A i \in 1..Len(instances) : instances[i].initial = JsonOf(component.registered)

\* An instance was made after an earlier instance wrote to its data and to
\* the nested object; the registered data holds a value JSON cannot keep.
C37_Witness ==
  /\ dataCall.op = "resolve"
  /\ Len(instances) >= 2
  /\ DeepValue(objects, instances[1].data) = <<WriteValue, <<WriteValue>>>>
  /\ component.registered # JsonOf(component.registered)
  /\ instances[Len(instances)].initial = JsonOf(component.registered)

\* With registered data that holds only JSON values the copy is a deep copy.
JsonDataGetsDeepCopy ==
  component.registered = JsonOf(component.registered) => C37_InstancesGetDeepCopy

====
